---------------------------- MODULE Spec2Model ----------------------------
(***************************************************************************)
(* A model of gondolio/Japanrealestate: the fixed-rate Mortgage schedule,  *)
(* the IncomeTaxCalc pipeline with its two bracket tables, and the         *)
(* RealEstateCalc pro-forma that owns a Mortgage and references an         *)
(* IncomeTaxCalc.                                                          *)
(*                                                                         *)
(* Numbers.  Python's ints are modelled by TLA+ integers.  Python's floats *)
(* are modelled by exact rationals held as mixed numbers                   *)
(*     [i |-> integer part (floor), n |-> numerator, d |-> denominator]    *)
(* with 0 <= n < d and n/d in lowest terms, so that equal values are equal *)
(* records.  Ratios given by the caller (0.7, 0.05, ...) are fractions     *)
(* [n |-> , d |-> ].  None is the empty tuple and an optional input x that *)
(* is set is the one-tuple <<x>>.                                          *)
(***************************************************************************)
EXTENDS Integers, Sequences, FiniteSets, TLC

VARIABLES
    loan,             \* a Mortgage object (SpecMortgage)
    probe,            \* one call of __lookup_in_tax_table (SpecLookup)
    income_tax_calc,  \* the caller's IncomeTaxCalc object
    real_estate_calc, \* the caller's RealEstateCalc object, None before construction
    arguments,        \* the arguments of RealEstateCalc(...) while it is the last call
    recomputes,       \* the calls that computed real_estate_calc since its last assignment
    raised,           \* the exception the last call raised, "none" if it returned
    last_call,        \* the last operation the caller performed
    copies,           \* the evaluation years of the deep copies of the scenario that
                      \* the last calculate_all_fields() on it recomputed, in order
    second_calc,      \* a second RealEstateCalc object of the caller (SpecShared)
    running           \* the next step of the calculate_all_fields() that is running
                      \* on each of the two objects (SpecShared)

vars ==
    <<loan, probe, income_tax_calc, real_estate_calc, arguments, recomputes, raised,
      last_call, copies, second_calc, running>>

\* The variables of the caller that recomputes two scenarios at once
interleaved == <<second_calc, running>>

None == <<>>
Some(x) == <<x>>
Val(o) == o[1]

-----------------------------------------------------------------------------
(* Exact arithmetic standing for Python's float arithmetic.                *)

RECURSIVE GCD(_, _)
GCD(a, b) == IF b = 0 THEN a ELSE GCD(b, a % b)

Frac(n, d) == [n |-> n, d |-> d]

\* i + n/d for any n >= 0 or n < 0, d > 0, brought to the canonical form
QNorm(i, n, d) ==
    LET r == n % d
        g == GCD(r, d)
    IN  [i |-> i + (n \div d), n |-> r \div g, d |-> d \div g]

QInt(k) == [i |-> k, n |-> 0, d |-> 1]

\* quotient and remainder of a * p by q (p >= 0, q > 0): at once when the
\* product stays inside the machine integers, and otherwise from the digits of
\* p in the radix 64 (in the radix 2 when 65 * q would leave them)
RECURSIVE MulDiv(_, _, _)
MulDiv(a, p, q) ==
    IF p = 0 THEN [quo |-> 0, rem |-> 0]
    ELSE IF a <= 2147483647 \div p /\ -a <= 2147483647 \div p
    THEN [quo |-> (a * p) \div q, rem |-> (a * p) % q]
    ELSE LET radix == IF p >= 64 /\ q <= 2147483647 \div 65 THEN 64 ELSE 2
             h == MulDiv(a, p \div radix, q)
             l == MulDiv(a, p % radix, q)
             s == radix * h.rem + l.rem
         IN  [quo |-> radix * h.quo + l.quo + (s \div q), rem |-> s % q]

\* x * p / q for a mixed number x
QMulFrac(x, p, q) ==
    LET m == MulDiv(x.i, p, q)
    IN  QNorm(m.quo, m.rem * x.d + x.n * p, x.d * q)

\* The fraction n/d as a mixed number, and a * b for b >= 0
QFrac(f) == QNorm(0, f.n, f.d)

QMul(a, b) == QMulFrac(a, b.i * b.d + b.n, b.d)

QAdd(a, b) ==
    LET g == GCD(a.d, b.d)
        l == (a.d \div g) * b.d
    IN  QNorm(a.i + b.i, a.n * (l \div a.d) + b.n * (l \div b.d), l)

QNeg(a) ==
    IF a.n = 0 THEN QInt(-a.i) ELSE [i |-> -a.i - 1, n |-> a.d - a.n, d |-> a.d]

QSub(a, b) == QAdd(a, QNeg(b))

QLE(a, b) == a.i < b.i \/ (a.i = b.i /\ a.n * b.d <= b.n * a.d)

QLT(a, b) == ~QLE(b, a)

\* Python's max(a, b) and min(a, b): the first argument wins a tie
QMax(a, b) == IF QLT(a, b) THEN b ELSE a

QMin(a, b) == IF QLT(b, a) THEN b ELSE a

\* Python's int(x): truncation towards zero
QTrunc(a) == IF a.i >= 0 \/ a.n = 0 THEN a.i ELSE a.i + 1

\* Python 3's round(x): to the nearest integer, a tie to the even one
QRound(a) ==
    IF 2 * a.n < a.d THEN a.i
    ELSE IF 2 * a.n > a.d THEN a.i + 1
    ELSE IF a.i % 2 = 0 THEN a.i ELSE a.i + 1

\* b to the power e >= 0, by squaring
RECURSIVE Pow(_, _)
Pow(b, e) ==
    IF e = 0 THEN 1
    ELSE IF e = 1 THEN b
    ELSE IF e % 2 = 0 THEN Pow(b * b, e \div 2)
    ELSE b * Pow(b * b, e \div 2)

\* sum(s): the entries lo..hi of s added up by halves (the arithmetic being
\* exact, the order of the additions does not change the sum)
RECURSIVE QSumRange(_, _, _)
QSumRange(s, lo, hi) ==
    IF lo > hi THEN QInt(0)
    ELSE IF lo = hi THEN s[lo]
    ELSE LET mid == (lo + hi) \div 2
         IN  QAdd(QSumRange(s, lo, mid), QSumRange(s, mid + 1, hi))

QSum(s) == QSumRange(s, 1, Len(s))

\* Python's s[k:]: from index k (counted from 0) on, a negative k counted
\* from the end
SliceFrom(s, k) ==
    LET start == IF k >= 0 THEN k ELSE IF Len(s) + k > 0 THEN Len(s) + k ELSE 0
    IN  IF start >= Len(s) THEN <<>> ELSE SubSeq(s, start + 1, Len(s))

\* Python's s[:k] for k >= 0
SliceTo(s, k) == IF k >= Len(s) THEN s ELSE SubSeq(s, 1, k)

-----------------------------------------------------------------------------
(* mortgage.py: class Mortgage.  principal is an amount, tenor a number of *)
(* years, rate the annual rate as a fraction.                              *)

MONTHS_PER_YEAR == 12

Mortgage_fields(principal, tenor, rate) ==
    [principal |-> principal, tenor |-> tenor, rate |-> rate,
     loan_periods |-> None, interest_schedule |-> None,
     principal_schedule |-> None, amortization_schedule |-> None,
     monthly_payment |-> None]

LoanPeriodsInYears(self) ==
    [self EXCEPT !.loan_periods = [k \in 1..self.tenor |-> k]]

\* np.arange(tenor * 12) + 1
Mortgage_calculate_loan_periods(self) ==
    [self EXCEPT !.loan_periods = [k \in 1..(self.tenor * MONTHS_PER_YEAR) |-> k]]

\* The monthly rate rate / 12 and the growth factor 1 + rate / 12, in lowest terms
MonthlyRate(rate) ==
    LET g == GCD(rate.n, rate.d * MONTHS_PER_YEAR)
    IN  Frac(rate.n \div g, (rate.d * MONTHS_PER_YEAR) \div g)

\* - np.ipmt(r, per, nper, pv): the interest on the balance left before period
\*   per, r * pv * (g^nper - g^(per-1)) / (g^nper - 1) with g = 1 + r
NumpyIpmt(r, per, nper, pv) ==
    LET gn == r.n + r.d
        gd == r.d
        a == Pow(gn, nper)
        b == Pow(gd, nper)
    IN  QMulFrac(QInt(pv),
                 r.n * (a - Pow(gn, per - 1) * Pow(gd, nper - per + 1)),
                 r.d * (a - b))

\* - np.ppmt(r, per, nper, pv): the payment less the interest,
\*   r * pv * g^(per-1) / (g^nper - 1)
NumpyPpmt(r, per, nper, pv) ==
    LET gn == r.n + r.d
        gd == r.d
        a == Pow(gn, nper)
        b == Pow(gd, nper)
    IN  QMulFrac(QInt(pv),
                 r.n * Pow(gn, per - 1) * Pow(gd, nper - per + 1),
                 r.d * (a - b))

Mortgage_calculate_interest_schedule(self) ==
    [self EXCEPT !.interest_schedule =
        IF self.tenor = 0 THEN <<>>
        ELSE IF self.rate.n = 0
             THEN [k \in 1..Len(self.loan_periods) |-> QInt(self.loan_periods[k] * 0)]
             ELSE [k \in 1..Len(self.loan_periods) |->
                     NumpyIpmt(MonthlyRate(self.rate), self.loan_periods[k],
                               self.tenor * MONTHS_PER_YEAR, self.principal)]]

PrincipalPaymentPerYear(principal, tenor, num_periods) ==
    QMulFrac(QInt(principal), 1, tenor)

\* principal / num_periods, the equal payment when the rate is 0
EqualPrincipalPayment(principal, tenor, num_periods) ==
    QMulFrac(QInt(principal), 1, num_periods)

Mortgage_calculate_principal_schedule(self) ==
    [self EXCEPT !.principal_schedule =
        IF self.tenor = 0 THEN <<>>
        ELSE IF self.rate.n = 0
             THEN LET num_periods == Len(self.loan_periods)
                  IN  [k \in 1..num_periods |->
                         EqualPrincipalPayment(self.principal, self.tenor, num_periods)]
             ELSE [k \in 1..Len(self.loan_periods) |->
                     NumpyPpmt(MonthlyRate(self.rate), self.loan_periods[k],
                               self.tenor * MONTHS_PER_YEAR, self.principal)]]

AmortizationOfPrincipalOnly(self) ==
    [self EXCEPT !.amortization_schedule =
        IF self.tenor = 0 THEN <<>> ELSE self.principal_schedule]

Mortgage_calculate_amortization_schedule(self) ==
    [self EXCEPT !.amortization_schedule =
        IF self.tenor = 0 THEN <<>>
        ELSE [k \in 1..Len(self.interest_schedule) |->
                QAdd(self.interest_schedule[k], self.principal_schedule[k])]]

Mortgage_calculate_monthly_payment(self) ==
    [self EXCEPT !.monthly_payment =
        IF Len(self.amortization_schedule) # 0
        THEN self.amortization_schedule[1]
        ELSE QInt(0)]

Mortgage_calculate_all_fields(self) ==
    Mortgage_calculate_monthly_payment(
      Mortgage_calculate_amortization_schedule(
        Mortgage_calculate_principal_schedule(
          Mortgage_calculate_interest_schedule(
            Mortgage_calculate_loan_periods(self)))))

\* Mortgage(principal, tenor, rate): the constructor computes every field
Mortgage(principal, tenor, rate) ==
    Mortgage_calculate_all_fields(Mortgage_fields(principal, tenor, rate))

-----------------------------------------------------------------------------
(* taxconstants.py, and dates.  A date is [year, month, day].              *)

CONSUMPTION_TAX == Frac(8, 100)

RESTORATION_TAX == Frac(21, 1000)

Date(y, m, d) == [year |-> y, month |-> m, day |-> d]

RESTORATION_TAX_EXPIRY == Date(2038, 1, 1)

\* date < date
DateLT(a, b) ==
    \/ a.year < b.year
    \/ a.year = b.year /\ a.month < b.month
    \/ a.year = b.year /\ a.month = b.month /\ a.day < b.day

IsLeapYear(y) == (y % 4 = 0 /\ y % 100 # 0) \/ y % 400 = 0

\* date + relativedelta(years=k): the same day k years on, 29 February falling
\* back to 28 February when the year reached is no leap year
AddYears(a, k) ==
    IF a.month = 2 /\ a.day = 29 /\ ~IsLeapYear(a.year + k)
    THEN Date(a.year + k, 2, 28)
    ELSE Date(a.year + k, a.month, a.day)

\* x * (1 + f) for a fraction f
QTimesOnePlus(x, f) == QMulFrac(x, f.d + f.n, f.d)

-----------------------------------------------------------------------------
(* incometaxcalc.py: the bracket tables and their lookup.  A bound of a    *)
(* table, and a value looked up, is a number g * 10^12 + q with q a mixed  *)
(* number inside the machine integers, or +infinity.                       *)

Num(g, q) == [inf |-> FALSE, g |-> g, q |-> q]

N(k) == Num(0, QInt(k))

Infinity == [inf |-> TRUE, g |-> 0, q |-> QInt(0)]

\* a <= b
NumLE(a, b) ==
    IF b.inf THEN TRUE
    ELSE IF a.inf THEN FALSE
    ELSE a.g < b.g \/ (a.g = b.g /\ QLE(a.q, b.q))

\* The rules' functions, by the position of the rule in the table
EmploymentIncomeFunction(k, x) ==
    CASE k = 1 -> QInt(0)
      [] k = 2 -> QSub(x, QInt(650000))
      [] k = 3 -> QInt(969000)
      [] k = 4 -> QInt(970000)
      [] k = 5 -> QInt(972000)
      [] k = 6 -> QInt(974000)
      [] k = 7 -> QMulFrac(QInt(QRound(QMulFrac(x, 1, 4 * 1000)) * 1000), 24, 10)
      [] k = 8 -> QSub(QMulFrac(QInt(QRound(QMulFrac(x, 1, 4 * 1000)) * 1000), 28, 10),
                       QInt(180000))
      [] k = 9 -> QSub(QMulFrac(QInt(QRound(QMulFrac(x, 1, 4 * 1000)) * 1000), 32, 10),
                       QInt(540000))
      [] k = 10 -> QSub(QMulFrac(x, 9, 10), QInt(1200000))
      [] k = 11 -> QSub(QMulFrac(x, 95, 100), QInt(1700000))
      [] k = 12 -> QSub(x, QInt(2300000))

EMPLOYMENT_INCOME_FOR_TAX_TABLE ==
    << [bounds |-> <<N(0), N(650999)>>, function |-> 1],
       [bounds |-> <<N(651000), N(1618999)>>, function |-> 2],
       [bounds |-> <<N(1619000), N(1619999)>>, function |-> 3],
       [bounds |-> <<N(1620000), N(1621999)>>, function |-> 4],
       [bounds |-> <<N(1622000), N(1623999)>>, function |-> 5],
       [bounds |-> <<N(1624000), N(1627999)>>, function |-> 6],
       [bounds |-> <<N(1628000), N(1799999)>>, function |-> 7],
       [bounds |-> <<N(1800000), N(3599999)>>, function |-> 8],
       [bounds |-> <<N(3600000), N(6599999)>>, function |-> 9],
       [bounds |-> <<N(6600000), N(9999999)>>, function |-> 10],
       [bounds |-> <<N(10000000), N(11999999)>>, function |-> 11],
       [bounds |-> <<N(12000000), Num(10, QInt(0))>>, function |-> 12] >>

NATIONAL_INCOME_TAX_TABLE ==
    << [bounds |-> <<N(0), N(1950000)>>, rate |-> Frac(5, 100),
        previous_brackets_sum |-> 0],
       [bounds |-> <<N(1950000 + 1), N(3300000)>>, rate |-> Frac(10, 100),
        previous_brackets_sum |-> 97500],
       [bounds |-> <<N(3300000 + 1), N(6950000)>>, rate |-> Frac(20, 100),
        previous_brackets_sum |-> 232500],
       [bounds |-> <<N(6950000 + 1), N(9000000)>>, rate |-> Frac(23, 100),
        previous_brackets_sum |-> 962500],
       [bounds |-> <<N(9000000 + 1), N(18000000)>>, rate |-> Frac(33, 100),
        previous_brackets_sum |-> 1434000],
       [bounds |-> <<N(18000000 + 1), N(40000000)>>, rate |-> Frac(40, 100),
        previous_brackets_sum |-> 4404000],
       [bounds |-> <<N(40000000 + 1), Infinity>>, rate |-> Frac(45, 100),
        previous_brackets_sum |-> 13204000] >>

InBoundsUpperExclusive(lookup_value, bounds) ==
    NumLE(bounds[1], lookup_value) /\ ~NumLE(bounds[2], lookup_value)

\* bounds[0] <= lookup_value <= bounds[1]
InBounds(lookup_value, bounds) ==
    NumLE(bounds[1], lookup_value) /\ NumLE(lookup_value, bounds[2])

\* for rule in rules: the first rule whose bounds hold the value is returned,
\* and ValueError is raised when the loop ends without one
lookup_in_tax_table(lookup_value, rules) ==
    LET matching == { k \in 1..Len(rules) : InBounds(lookup_value, rules[k].bounds) }
    IN  IF matching = {} THEN [raised |-> "ValueError", rule |-> None]
        ELSE LET first == CHOOSE k \in matching : \A j \in matching : k <= j
             IN  [raised |-> "none", rule |-> Some(rules[first])]

-----------------------------------------------------------------------------
(* incometaxcalc.py: class IncomeTaxCalc.  A step takes and returns a call *)
(* frame [self |-> the object, today |-> date.today(), raised |-> the      *)
(* exception raised so far or "none"].                                     *)

DEDUCTION_BASIC == 380000

DEDUCTION_PER_DEPENDENT == 380000

LEGAL_RENT_RATE == Frac(95, 100)

LOCAL_INCOME_TAX_RATE == Frac(4 + 6, 100)

HEALTH_INSURANCE_RATE == Frac(996, 10000)

SOCIAL_PENSION_RATE == Frac(183, 1000)

\* The fields __init__ sets from its arguments, and the derived fields at None
IncomeTaxCalc_fields(a) ==
    [employment_income |-> a.employment_income,
     rent |-> a.rent,
     other_income |-> a.other_income,
     life_insurance_premium |-> a.life_insurance_premium,
     medical_expense |-> a.medical_expense,
     number_of_dependents |-> a.number_of_dependents,
     is_rent_program |-> a.is_rent_program,
     social_security_expense |-> a.social_security_expense,
     tax_deduction |-> a.tax_deduction,
     is_resident_for_tax_purposes |-> a.is_resident_for_tax_purposes,
     current_date |-> a.current_date,
     total_income |-> None,
     employment_income_after_rent_program |-> None,
     employment_income_deduction |-> None,
     employment_income_for_tax |-> None,
     total_income_for_tax |-> None,
     deduction_dependents |-> None,
     deduction_total |-> None,
     taxable_income |-> None,
     national_income_tax_bracket |-> None,
     national_income_tax_rate |-> None,
     national_income_tax |-> None,
     local_income_tax |-> None,
     total_income_tax |-> None,
     net_income_after_tax |-> None,
     effective_tax_rate |-> None]

\* True * x and False * x
BoolInt(b) == IF b THEN 1 ELSE 0

Tax_calculate_current_date(f) ==
    IF f.self.current_date = None
    THEN [f EXCEPT !.self.current_date = Some(f.today)]
    ELSE f

Tax_calculate_total_income(f) ==
    [f EXCEPT !.self.total_income = f.self.employment_income + f.self.other_income]

Tax_calculate_employment_income_after_rent_program(f) ==
    [f EXCEPT !.self.employment_income_after_rent_program =
        QSub(QInt(f.self.employment_income),
             QMulFrac(QInt(BoolInt(f.self.is_rent_program) * f.self.rent),
                      LEGAL_RENT_RATE.n, LEGAL_RENT_RATE.d))]

Tax_calculate_social_security_expense(f) ==
    IF f.self.social_security_expense = None
    THEN LET health_insurance_standard_salary ==
                 QMin(f.self.employment_income_after_rent_program, QInt(1390000 * 12))
             health_insurance_expense ==
                 QMulFrac(health_insurance_standard_salary,
                          HEALTH_INSURANCE_RATE.n, HEALTH_INSURANCE_RATE.d)
             social_pension_standard_salary ==
                 QMin(f.self.employment_income_after_rent_program, QInt(635000 * 12))
             social_pension_standard_expense ==
                 QMulFrac(social_pension_standard_salary,
                          SOCIAL_PENSION_RATE.n, SOCIAL_PENSION_RATE.d)
             total_expense == QAdd(health_insurance_expense, social_pension_standard_expense)
         IN  [f EXCEPT !.self.social_security_expense =
                 Some(QTrunc(QMulFrac(total_expense, 5, 10)))]
    ELSE f

Tax_calculate_employment_income_for_tax(f) ==
    LET x == f.self.employment_income_after_rent_program
        found == lookup_in_tax_table(Num(0, x), EMPLOYMENT_INCOME_FOR_TAX_TABLE)
    IN  IF found.raised # "none" THEN [f EXCEPT !.raised = found.raised]
        ELSE [f EXCEPT !.self.employment_income_for_tax =
                 QMin(QInt(QTrunc(EmploymentIncomeFunction(Val(found.rule).function, x))), x)]

Tax_calculate_employment_income_deduction(f) ==
    [f EXCEPT !.self.employment_income_deduction =
        QSub(f.self.employment_income_after_rent_program, f.self.employment_income_for_tax)]

Tax_calculate_total_income_for_tax(f) ==
    [f EXCEPT !.self.total_income_for_tax =
        QAdd(f.self.employment_income_for_tax, QInt(f.self.other_income))]

Tax_calculate_deduction_dependents(f) ==
    [f EXCEPT !.self.deduction_dependents =
        f.self.number_of_dependents * DEDUCTION_PER_DEPENDENT]

\* min(2000000, medical_expense)
IntMin(a, b) == IF b < a THEN b ELSE a

Tax_calculate_deduction_total(f) ==
    [f EXCEPT !.self.deduction_total =
        IntMin(2000000, f.self.medical_expense)
        + Val(f.self.social_security_expense)
        + f.self.life_insurance_premium
        + DEDUCTION_BASIC
        + f.self.deduction_dependents]

Tax_calculate_taxable_income(f) ==
    [f EXCEPT !.self.taxable_income =
        QMax(QInt(0), QSub(f.self.total_income_for_tax, QInt(f.self.deduction_total)))]

Tax_calculate_national_income_tax_bracket(f) ==
    LET found == lookup_in_tax_table(Num(0, f.self.taxable_income),
                                     NATIONAL_INCOME_TAX_TABLE)
    IN  IF found.raised # "none" THEN [f EXCEPT !.raised = found.raised]
        ELSE [f EXCEPT !.self.national_income_tax_bracket = Val(found.rule)]

Tax_calculate_national_income_tax_rate(f) ==
    [f EXCEPT !.self.national_income_tax_rate = f.self.national_income_tax_bracket.rate]

\* national_income_tax with the restoration tax at every date
NationalIncomeTaxAlwaysSurcharged(f) ==
    LET marginal_income ==
            QSub(f.self.taxable_income, f.self.national_income_tax_bracket.bounds[1].q)
        marginal_rate == f.self.national_income_tax_rate
        marginal_tax == QMulFrac(marginal_income, marginal_rate.n, marginal_rate.d)
        total_tax ==
            QAdd(QInt(f.self.national_income_tax_bracket.previous_brackets_sum), marginal_tax)
    IN  [f EXCEPT !.self.national_income_tax =
            QTrunc(QTimesOnePlus(total_tax, RESTORATION_TAX))]

Tax_calculate_national_income_tax(f) ==
    LET marginal_income ==
            QSub(f.self.taxable_income, f.self.national_income_tax_bracket.bounds[1].q)
        marginal_rate == f.self.national_income_tax_rate
        marginal_tax == QMulFrac(marginal_income, marginal_rate.n, marginal_rate.d)
        total_tax ==
            QAdd(QInt(f.self.national_income_tax_bracket.previous_brackets_sum), marginal_tax)
        with_restoration_tax ==
            IF DateLT(Val(f.self.current_date), RESTORATION_TAX_EXPIRY)
            THEN QTimesOnePlus(total_tax, RESTORATION_TAX)
            ELSE total_tax
    IN  [f EXCEPT !.self.national_income_tax = QTrunc(with_restoration_tax)]

Tax_calculate_local_income_tax(f) ==
    [f EXCEPT !.self.local_income_tax =
        QMulFrac(f.self.taxable_income,
                 BoolInt(f.self.is_resident_for_tax_purposes) * LOCAL_INCOME_TAX_RATE.n,
                 LOCAL_INCOME_TAX_RATE.d)]

TotalIncomeTaxUnfloored(f) ==
    [f EXCEPT !.self.total_income_tax =
        QSub(QAdd(QInt(f.self.national_income_tax), f.self.local_income_tax),
             QInt(f.self.tax_deduction))]

Tax_calculate_total_income_tax(f) ==
    LET total_income_tax ==
            QSub(QAdd(QInt(f.self.national_income_tax), f.self.local_income_tax),
                 QInt(f.self.tax_deduction))
    IN  [f EXCEPT !.self.total_income_tax = QMax(QInt(0), total_income_tax)]

Tax_calculate_net_income_after_tax(f) ==
    [f EXCEPT !.self.net_income_after_tax =
        QSub(QSub(QInt(f.self.total_income), f.self.total_income_tax),
             QInt(Val(f.self.social_security_expense)))]

\* x / k for an integer k # 0
QDivInt(x, k) ==
    IF k > 0 THEN QNorm(0, x.i * x.d + x.n, x.d * k)
    ELSE QNeg(QNorm(0, x.i * x.d + x.n, x.d * (-k)))

Tax_calculate_effective_tax_rate(f) ==
    [f EXCEPT !.self.effective_tax_rate =
        IF f.self.total_income = 0 THEN QInt(0)
        ELSE QSub(QInt(1), QDivInt(f.self.net_income_after_tax, f.self.total_income))]

\* The steps of calculate_all_fields, in the order it calls them
TaxSteps ==
    << "current_date", "total_income", "employment_income_after_rent_program",
       "social_security_expense", "employment_income_for_tax",
       "employment_income_deduction", "total_income_for_tax", "deduction_dependents",
       "deduction_total", "taxable_income", "national_income_tax_bracket",
       "national_income_tax_rate", "national_income_tax", "local_income_tax",
       "total_income_tax", "net_income_after_tax", "effective_tax_rate" >>

TaxStep(name, f) ==
    CASE name = "current_date" -> Tax_calculate_current_date(f)
      [] name = "total_income" -> Tax_calculate_total_income(f)
      [] name = "employment_income_after_rent_program" ->
             Tax_calculate_employment_income_after_rent_program(f)
      [] name = "social_security_expense" -> Tax_calculate_social_security_expense(f)
      [] name = "employment_income_for_tax" -> Tax_calculate_employment_income_for_tax(f)
      [] name = "employment_income_deduction" ->
             Tax_calculate_employment_income_deduction(f)
      [] name = "total_income_for_tax" -> Tax_calculate_total_income_for_tax(f)
      [] name = "deduction_dependents" -> Tax_calculate_deduction_dependents(f)
      [] name = "deduction_total" -> Tax_calculate_deduction_total(f)
      [] name = "taxable_income" -> Tax_calculate_taxable_income(f)
      [] name = "national_income_tax_bracket" ->
             Tax_calculate_national_income_tax_bracket(f)
      [] name = "national_income_tax_rate" -> Tax_calculate_national_income_tax_rate(f)
      [] name = "national_income_tax" -> Tax_calculate_national_income_tax(f)
      [] name = "local_income_tax" -> Tax_calculate_local_income_tax(f)
      [] name = "total_income_tax" -> Tax_calculate_total_income_tax(f)
      [] name = "net_income_after_tax" -> Tax_calculate_net_income_after_tax(f)
      [] name = "effective_tax_rate" -> Tax_calculate_effective_tax_rate(f)

\* The steps lo..hi in order, the first half and then the second; a step that
\* raises ends the call
RECURSIVE TaxRun(_, _, _)
TaxRun(f, lo, hi) ==
    IF lo = hi THEN TaxStep(TaxSteps[lo], f)
    ELSE LET mid == (lo + hi) \div 2
             g == TaxRun(f, lo, mid)
         IN  IF g.raised # "none" THEN g ELSE TaxRun(g, mid + 1, hi)

\* calculate_all_fields() on the object self when date.today() is today
Tax_calculate_all_fields(self, today) ==
    TaxRun([self |-> self, today |-> today, raised |-> "none"], 1, Len(TaxSteps))

-----------------------------------------------------------------------------
(* realestatecalc.py: class RealEstateCalc.  A step takes and returns a    *)
(* call frame [self |-> the object, heap |-> the IncomeTaxCalc objects by   *)
(* reference, today |-> date.today(), raised |-> the exception raised so   *)
(* far or "none"].  self.income_tax_calculator is None or a reference into *)
(* the heap; copy.deepcopy makes a new object under a new reference.       *)

RENEWAL_INCOME_RATE_DEFAULT == Frac(1, 24)

RENTAL_MANAGEMENT_FEE_DEFAULT == Frac(5, 100)

\* (1 / 24 + 0.5 / 24) / 2
RENTAL_MANAGEMENT_RENEWAL_DEFAULT == Frac(1, 32)

DEPRECIATION_AGE_FACTOR_IF_SECOND_HAND == Frac(8, 10)

CAPITAL_GAINS_TAX_SHORT_NATIONAL == Frac(30, 100)

CAPITAL_GAINS_TAX_SHORT_MUNICIPAL == Frac(9, 100)

CAPITAL_GAINS_TAX_LONG_NATIONAL == Frac(15, 100)

CAPITAL_GAINS_TAX_LONG_MUNICIPAL == Frac(5, 100)

CAPITAL_GAINS_TAX_PRIMARY_RESIDENCE_DEDUCTION == 30000000

RealEstateInputs ==
    { "purchase_date", "purchase_price", "building_to_land_ratio", "size", "age",
      "mortgage_loan_to_value", "bank_valuation_to_actual", "mortgage_tenor",
      "mortgage_rate", "mortgage_initiation_fees", "renovation_cost",
      "agent_fee_variable", "agent_fee_fixed", "other_transaction_fees",
      "monthly_fees", "property_tax_rate", "maintenance_per_m2", "useful_life",
      "calc_year", "income_tax_calculator", "gross_rental_yield",
      "renewal_income_rate", "rental_management_rental_fee",
      "rental_management_renewal_fee", "is_primary_residence",
      "is_resident_for_tax_purposes", "sale_price" }

RealEstateDerived ==
    { "purchase_price_financed", "mortgage", "purchase_price_building",
      "purchase_price_land", "purchase_agent_fee", "purchase_other_transaction_fees",
      "purchase_price_and_fees", "purchase_initial_outlay", "depreciation_years",
      "depreciation_percentage", "depreciation_annual", "rental_income",
      "renewal_income", "total_income", "maintenance_expense",
      "monthly_fees_annualized", "rental_management_renewal_expense",
      "rental_management_rental_expense", "rental_management_total_expense",
      "property_tax_expense", "calc_date", "total_expense", "net_income_before_taxes",
      "depreciation", "net_income_taxable", "home_loan_deduction", "income_tax",
      "income_tax_real_estate", "net_income_after_taxes", "cumulative_net_income",
      "depreciation_cumulative", "sale_agent_fee", "sale_other_transaction_fees",
      "depreciated_building_value", "book_value", "sale_proceeds_after_fees",
      "acquisition_cost", "capital_gains_tax_primary_residence_deduction",
      "capital_gains", "capital_gains_tax_rate", "capital_gains_tax",
      "sale_proceeds_net", "net_income_on_realestate" }

\* The fields __init__ sets from its arguments a, and the derived fields at None
RealEstateCalc_fields(a) ==
    [k \in RealEstateInputs \cup RealEstateDerived |->
        IF k \in RealEstateInputs THEN a[k] ELSE None]

RE_calculate_purchase_date(f) ==
    IF f.self.purchase_date = None
    THEN [f EXCEPT !.self.purchase_date = Some(f.today)]
    ELSE f

RE_calculate_renewal_income_rate(f) ==
    IF f.self.renewal_income_rate = None
    THEN [f EXCEPT !.self.renewal_income_rate = Some(RENEWAL_INCOME_RATE_DEFAULT)]
    ELSE f

RE_calculate_rental_management_rental_fee(f) ==
    IF f.self.rental_management_rental_fee = None
    THEN [f EXCEPT !.self.rental_management_rental_fee =
             Some(RENTAL_MANAGEMENT_FEE_DEFAULT)]
    ELSE f

RE_calculate_rental_management_renewal_fee(f) ==
    IF f.self.rental_management_renewal_fee = None
    THEN [f EXCEPT !.self.rental_management_renewal_fee =
             Some(RENTAL_MANAGEMENT_RENEWAL_DEFAULT)]
    ELSE f

\* int(x * f) for an integer x and a fraction f
IntTimesFrac(x, fr) == QTrunc(QMulFrac(QInt(x), fr.n, fr.d))

RE_calculate_purchase_price_financed(f) ==
    [f EXCEPT !.self.purchase_price_financed =
        QTrunc(QMulFrac(QMulFrac(QInt(f.self.purchase_price),
                                 f.self.bank_valuation_to_actual.n,
                                 f.self.bank_valuation_to_actual.d),
                        f.self.mortgage_loan_to_value.n,
                        f.self.mortgage_loan_to_value.d))]

RE_calculate_mortgage(f) ==
    IF f.self.purchase_price_financed > 0
    THEN [f EXCEPT !.self.mortgage =
             Some(Mortgage(f.self.purchase_price_financed, f.self.mortgage_tenor,
                           f.self.mortgage_rate))]
    ELSE f

RE_calculate_purchase_price_building(f) ==
    LET allocated == QInt(IntTimesFrac(f.self.purchase_price, f.self.building_to_land_ratio))
    IN  [f EXCEPT !.self.purchase_price_building =
            IF f.self.age = 0 THEN QTimesOnePlus(allocated, CONSUMPTION_TAX)
            ELSE allocated]

RE_calculate_purchase_price_land(f) ==
    [f EXCEPT !.self.purchase_price_land =
        QSub(QInt(f.self.purchase_price), f.self.purchase_price_building)]

\* int((price * agent_fee_variable + agent_fee_fixed) * (1 + CONSUMPTION_TAX))
AgentFee(price, agent_fee_variable, agent_fee_fixed) ==
    QTrunc(QTimesOnePlus(
             QAdd(QMulFrac(QInt(price), agent_fee_variable.n, agent_fee_variable.d),
                  QInt(agent_fee_fixed)),
             CONSUMPTION_TAX))

RE_calculate_purchase_agent_fee(f) ==
    [f EXCEPT !.self.purchase_agent_fee =
        AgentFee(f.self.purchase_price, f.self.agent_fee_variable, f.self.agent_fee_fixed)]

RE_calculate_purchase_other_transaction_fees(f) ==
    [f EXCEPT !.self.purchase_other_transaction_fees =
        IntTimesFrac(f.self.purchase_price, f.self.other_transaction_fees)]

RE_calculate_purchase_price_and_fees(f) ==
    [f EXCEPT !.self.purchase_price_and_fees =
        f.self.purchase_price + f.self.purchase_agent_fee
        + f.self.purchase_other_transaction_fees + f.self.mortgage_initiation_fees
        + f.self.renovation_cost]

RE_calculate_purchase_initial_outlay(f) ==
    [f EXCEPT !.self.purchase_initial_outlay =
        f.self.purchase_price_and_fees - f.self.purchase_price_financed]

RE_calculate_depreciation_years(f) ==
    [f EXCEPT !.self.depreciation_years =
        IF f.self.age = 0 THEN f.self.useful_life
        ELSE LET age_for_depreciation ==
                     QMulFrac(QInt(IntMin(f.self.useful_life, f.self.age)),
                              DEPRECIATION_AGE_FACTOR_IF_SECOND_HAND.n,
                              DEPRECIATION_AGE_FACTOR_IF_SECOND_HAND.d)
             IN  QTrunc(QSub(QInt(f.self.useful_life), age_for_depreciation))]

\* depreciation_percentage without the test of depreciation_years == 0
DepreciationPercentageUnguarded(f) ==
    IF f.self.depreciation_years = 0 THEN [f EXCEPT !.raised = "ZeroDivisionError"]
    ELSE [f EXCEPT !.self.depreciation_percentage =
             QFrac(Frac(1, f.self.depreciation_years))]

RE_calculate_depreciation_percentage(f) ==
    [f EXCEPT !.self.depreciation_percentage =
        IF f.self.depreciation_years = 0 THEN QInt(0)
        ELSE QFrac(Frac(1, f.self.depreciation_years))]

\* depreciation_annual rounded up instead of truncated
DepreciationAnnualRoundedUp(f) ==
    [f EXCEPT !.self.depreciation_annual =
        QTrunc(QMul(f.self.purchase_price_building, f.self.depreciation_percentage)) + 1]

RE_calculate_depreciation_annual(f) ==
    [f EXCEPT !.self.depreciation_annual =
        QTrunc(QMul(f.self.purchase_price_building, f.self.depreciation_percentage))]

RE_calculate_rental_income(f) ==
    [f EXCEPT !.self.rental_income =
        IntTimesFrac(f.self.purchase_price, f.self.gross_rental_yield)]

RE_calculate_renewal_income(f) ==
    [f EXCEPT !.self.renewal_income =
        IntTimesFrac(f.self.rental_income, Val(f.self.renewal_income_rate))]

RE_calculate_total_income(f) ==
    [f EXCEPT !.self.total_income = f.self.rental_income + f.self.renewal_income]

RE_calculate_maintenance_expense(f) ==
    [f EXCEPT !.self.maintenance_expense = f.self.maintenance_per_m2 * f.self.size]

RE_calculate_monthly_fees_annualized(f) ==
    [f EXCEPT !.self.monthly_fees_annualized = f.self.monthly_fees * 12]

\* int(rental_income * fee * (1 + CONSUMPTION_TAX))
ManagementExpense(rental_income, fee) ==
    QTrunc(QTimesOnePlus(QMulFrac(QInt(rental_income), fee.n, fee.d), CONSUMPTION_TAX))

RE_calculate_rental_management_renewal_expense(f) ==
    [f EXCEPT !.self.rental_management_renewal_expense =
        ManagementExpense(f.self.rental_income, Val(f.self.rental_management_renewal_fee))]

RE_calculate_rental_management_rental_expense(f) ==
    [f EXCEPT !.self.rental_management_rental_expense =
        ManagementExpense(f.self.rental_income, Val(f.self.rental_management_rental_fee))]

RE_calculate_rental_management_total_expense(f) ==
    [f EXCEPT !.self.rental_management_total_expense =
        f.self.rental_management_renewal_expense + f.self.rental_management_rental_expense]

RE_calculate_property_tax_expense(f) ==
    [f EXCEPT !.self.property_tax_expense =
        IntTimesFrac(f.self.purchase_price, f.self.property_tax_rate)]

CalcDateMovesPurchaseDate(f) ==
    [f EXCEPT !.self.calc_date = AddYears(Val(f.self.purchase_date), f.self.calc_year),
              !.self.purchase_date =
                  Some(AddYears(Val(f.self.purchase_date), f.self.calc_year))]

RE_calculate_calc_date(f) ==
    [f EXCEPT !.self.calc_date = AddYears(Val(f.self.purchase_date), f.self.calc_year)]

\* self.mortgage is not None and self.calc_year < self.mortgage.tenor
MortgageRunning(self) ==
    self.mortgage # None /\ self.calc_year < Val(self.mortgage).tenor

\* total_expense with the payments of a loan that has ended
TotalExpenseWhileMortgaged(f) ==
    LET total_expense ==
            f.self.maintenance_expense + f.self.monthly_fees_annualized
            + f.self.rental_management_total_expense + f.self.property_tax_expense
    IN  [f EXCEPT !.self.total_expense =
            IF f.self.mortgage # None
            THEN total_expense
                 + QTrunc(QMulFrac(Val(f.self.mortgage).monthly_payment, 12, 1))
            ELSE total_expense]

RE_calculate_total_expense(f) ==
    LET total_expense ==
            f.self.maintenance_expense + f.self.monthly_fees_annualized
            + f.self.rental_management_total_expense + f.self.property_tax_expense
    IN  [f EXCEPT !.self.total_expense =
            IF MortgageRunning(f.self)
            THEN total_expense
                 + QTrunc(QMulFrac(Val(f.self.mortgage).monthly_payment, 12, 1))
            ELSE total_expense]

RE_calculate_net_income_before_taxes(f) ==
    [f EXCEPT !.self.net_income_before_taxes = f.self.total_income - f.self.total_expense]

\* depreciation_for_year with the year depreciation_years still depreciated
DepreciationThroughLastYear(self, year) ==
    IF year <= self.depreciation_years THEN self.depreciation_annual ELSE 0

depreciation_for_year(self, year) ==
    IF year < self.depreciation_years THEN self.depreciation_annual ELSE 0

RE_calculate_depreciation(f) ==
    [f EXCEPT !.self.depreciation = depreciation_for_year(f.self, f.self.calc_year)]

\* net_income_taxable without the test of is_primary_residence
NetIncomeTaxableOfAnyUse(f) ==
    [f EXCEPT !.self.net_income_taxable =
        f.self.total_income - f.self.total_expense - f.self.depreciation]

RE_calculate_net_income_taxable(f) ==
    IF f.self.is_primary_residence # 0
    THEN [f EXCEPT !.self.net_income_taxable = 0]
    ELSE LET before_interest ==
                 f.self.total_income - f.self.total_expense - f.self.depreciation
         IN  IF MortgageRunning(f.self)
             THEN LET month == f.self.calc_year * 12
                      interest_payments ==
                          SliceTo(SliceFrom(Val(f.self.mortgage).interest_schedule, month), 12)
                      interest_payment_for_year == QTrunc(QSum(interest_payments))
                  IN  [f EXCEPT !.self.net_income_taxable =
                          before_interest - interest_payment_for_year]
             ELSE [f EXCEPT !.self.net_income_taxable = before_interest]

\* The IncomeTaxCalc object self.income_tax_calculator refers to
Attached(f) == f.heap[Val(f.self.income_tax_calculator)]

\* home_loan_deduction with the year 10 still qualified
HomeLoanDeductionThroughYearTen(f) ==
    LET is_qualified_for_deduction ==
            /\ f.self.is_primary_residence # 0
            /\ f.self.calc_year <= 10
            /\ f.self.size > 50
            /\ f.self.mortgage # None
            /\ f.self.calc_year < Val(f.self.mortgage).tenor
            /\ f.self.income_tax_calculator # None
            /\ QLT(Attached(f).taxable_income, QInt(30000000))
    IN  IF is_qualified_for_deduction
        THEN LET home_loan_deduction == IF f.self.age = 0 THEN 400000 ELSE 200000
                 month == f.self.calc_year * 12
                 remaining_loan_balance ==
                     QSum(SliceFrom(Val(f.self.mortgage).amortization_schedule, month))
             IN  [f EXCEPT !.self.home_loan_deduction =
                     QTrunc(QMin(QInt(home_loan_deduction), remaining_loan_balance))]
        ELSE [f EXCEPT !.self.home_loan_deduction = 0]

RE_calculate_home_loan_deduction(f) ==
    LET is_qualified_for_deduction ==
            /\ f.self.is_primary_residence # 0
            /\ f.self.calc_year < 10
            /\ f.self.size > 50
            /\ f.self.mortgage # None
            /\ f.self.calc_year < Val(f.self.mortgage).tenor
            /\ f.self.income_tax_calculator # None
            /\ QLT(Attached(f).taxable_income, QInt(30000000))
    IN  IF is_qualified_for_deduction
        THEN LET home_loan_deduction == IF f.self.age = 0 THEN 400000 ELSE 200000
                 month == f.self.calc_year * 12
                 remaining_loan_balance ==
                     QSum(SliceFrom(Val(f.self.mortgage).amortization_schedule, month))
             IN  [f EXCEPT !.self.home_loan_deduction =
                     QTrunc(QMin(QInt(home_loan_deduction), remaining_loan_balance))]
        ELSE [f EXCEPT !.self.home_loan_deduction = 0]

\* copy.deepcopy(self.income_tax_calculator): a new object, under its own reference
AliasOfCalculator(ref) == ref

DeepCopyOfCalculator(ref) == "copied_calc"

\* The return of the call on the copy: the local copied_calc is dropped, and
\* self.income_tax is the copy's total_income_tax
IncomeTaxOfCopy(f, overridden, copied_calc, call) ==
    LET returned == [overridden EXCEPT ![copied_calc] = call.self,
                                       !["copied_calc"] = None]
    IN  IF call.raised # "none"
        THEN [f EXCEPT !.heap = returned, !.raised = call.raised]
        ELSE [f EXCEPT !.heap = returned,
                       !.self.income_tax = call.self.total_income_tax]

\* The attributes written to the copy, and calculate_all_fields() on it
IncomeTaxOverridden(f, overridden, copied_calc) ==
    IncomeTaxOfCopy(f, overridden, copied_calc,
                    Tax_calculate_all_fields(overridden[copied_calc], f.today))

RE_calculate_income_tax(f) ==
    IF f.self.income_tax_calculator = None
    THEN [f EXCEPT !.self.income_tax = QInt(0)]
    ELSE LET original == Val(f.self.income_tax_calculator)
             copied_calc == DeepCopyOfCalculator(original)
             copied == [f.heap EXCEPT ![copied_calc] = f.heap[original]]
         IN  IncomeTaxOverridden(f,
                 [copied EXCEPT
                    ![copied_calc].current_date = Some(f.self.calc_date),
                    ![copied_calc].other_income = @ + f.self.net_income_taxable,
                    ![copied_calc].tax_deduction = @ + f.self.home_loan_deduction],
                 copied_calc)

RE_calculate_income_tax_real_estate(f) ==
    IF f.self.income_tax_calculator = None
    THEN [f EXCEPT !.self.income_tax_real_estate = QInt(0)]
    ELSE [f EXCEPT !.self.income_tax_real_estate =
             QMax(QInt(0), QSub(f.self.income_tax, Attached(f).total_income_tax))]

RE_calculate_net_income_after_taxes(f) ==
    [f EXCEPT !.self.net_income_after_taxes =
        QSub(QInt(f.self.net_income_before_taxes), f.self.income_tax_real_estate)]

RECURSIVE RE_calculate_all_fields(_)

CumulativeStopsAtYearZero(f) ==
    IF f.self.calc_year <= 0
    THEN [f EXCEPT !.self.cumulative_net_income = QInt(0)]
    ELSE LET assigned == [f EXCEPT !.self.cumulative_net_income =
                                        f.self.net_income_after_taxes]
             copy_of_self == [assigned EXCEPT
                                !.self.calc_year = @ - 1,
                                !.copies = Append(@, f.self.calc_year - 1)]
             call == RE_calculate_all_fields(copy_of_self)
         IN  IF call.raised # "none"
             THEN [assigned EXCEPT !.raised = call.raised, !.copies = call.copies]
             ELSE [assigned EXCEPT !.copies = call.copies,
                                   !.self.cumulative_net_income =
                                       QAdd(@, call.self.cumulative_net_income)]

\* cumulative_net_income with the recursive call made on self, not on a copy
CumulativeWithoutCopy(f) ==
    IF f.self.calc_year < 0
    THEN [f EXCEPT !.self.cumulative_net_income = QInt(0)]
    ELSE LET call == RE_calculate_all_fields(
                         [f EXCEPT !.self.calc_year = @ - 1,
                                   !.copies = Append(@, f.self.calc_year - 1)])
         IN  IF call.raised # "none" THEN call
             ELSE [call EXCEPT !.self.cumulative_net_income =
                                   QAdd(f.self.net_income_after_taxes, @)]

\* cumulative_net_income with the copy moved back by two years
CumulativeOfEveryOtherYear(f) ==
    IF f.self.calc_year < 0
    THEN [f EXCEPT !.self.cumulative_net_income = QInt(0)]
    ELSE LET assigned == [f EXCEPT !.self.cumulative_net_income =
                                        f.self.net_income_after_taxes]
             copy_of_self == [assigned EXCEPT
                                !.self.calc_year = @ - 2,
                                !.copies = Append(@, f.self.calc_year - 2)]
             call == RE_calculate_all_fields(copy_of_self)
         IN  IF call.raised # "none"
             THEN [assigned EXCEPT !.raised = call.raised, !.copies = call.copies]
             ELSE [assigned EXCEPT !.copies = call.copies,
                                   !.self.cumulative_net_income =
                                       QAdd(@, call.self.cumulative_net_income)]

\* The copy is the whole frame by value: copy.deepcopy(self) copies the object
\* and the IncomeTaxCalc it refers to, and nothing the call on the copy writes
\* reaches self but the copy's cumulative_net_income, read on return.
RE_calculate_cumulative_net_income(f) ==
    IF f.self.calc_year < 0
    THEN [f EXCEPT !.self.cumulative_net_income = QInt(0)]
    ELSE LET assigned == [f EXCEPT !.self.cumulative_net_income =
                                        f.self.net_income_after_taxes]
             copy_of_self == [assigned EXCEPT
                                !.self.calc_year = @ - 1,
                                !.copies = Append(@, f.self.calc_year - 1)]
             call == RE_calculate_all_fields(copy_of_self)
         IN  IF call.raised # "none"
             THEN [assigned EXCEPT !.raised = call.raised, !.copies = call.copies]
             ELSE [assigned EXCEPT !.copies = call.copies,
                                   !.self.cumulative_net_income =
                                       QAdd(@, call.self.cumulative_net_income)]

RECURSIVE SumDepreciation(_, _)
SumDepreciation(self, year) ==
    IF year < 0 THEN 0
    ELSE depreciation_for_year(self, year) + SumDepreciation(self, year - 1)

\* sum of depreciation_for_year(x) for x in range(0, calc_year + 1)
RE_calculate_depreciation_cumulative(f) ==
    [f EXCEPT !.self.depreciation_cumulative = SumDepreciation(f.self, f.self.calc_year)]

RE_calculate_depreciated_building_value(f) ==
    [f EXCEPT !.self.depreciated_building_value =
        QSub(f.self.purchase_price_building, QInt(f.self.depreciation_cumulative))]

RE_calculate_book_value(f) ==
    [f EXCEPT !.self.book_value =
        QAdd(f.self.purchase_price_land, f.self.depreciated_building_value)]

\* Defined by the class and called by no step of calculate_all_fields
RE_calculate_sale_price(f) ==
    IF f.self.sale_price = None
    THEN [f EXCEPT !.self.sale_price = Some(f.self.book_value)]
    ELSE f

\* sale_price is a number or None; arithmetic on None raises TypeError
RE_calculate_sale_agent_fee(f) ==
    IF f.self.sale_price = None THEN [f EXCEPT !.raised = "TypeError"]
    ELSE [f EXCEPT !.self.sale_agent_fee =
             QTrunc(QTimesOnePlus(
                      QAdd(QMulFrac(Val(f.self.sale_price), f.self.agent_fee_variable.n,
                                    f.self.agent_fee_variable.d),
                           QInt(f.self.agent_fee_fixed)),
                      CONSUMPTION_TAX))]

RE_calculate_sale_other_transaction_fees(f) ==
    IF f.self.sale_price = None THEN [f EXCEPT !.raised = "TypeError"]
    ELSE [f EXCEPT !.self.sale_other_transaction_fees =
             QTrunc(QMulFrac(Val(f.self.sale_price), f.self.other_transaction_fees.n,
                             f.self.other_transaction_fees.d))]

RE_calculate_sale_proceeds_after_fees(f) ==
    IF f.self.sale_price = None THEN [f EXCEPT !.raised = "TypeError"]
    ELSE [f EXCEPT !.self.sale_proceeds_after_fees =
             QSub(Val(f.self.sale_price),
                  QInt(f.self.sale_agent_fee + f.self.sale_other_transaction_fees))]

RE_calculate_acquisition_cost(f) ==
    [f EXCEPT !.self.acquisition_cost =
        f.self.purchase_price + f.self.purchase_agent_fee
        + f.self.purchase_other_transaction_fees]

PrimaryResidenceDeductionClamped(f) ==
    [f EXCEPT !.self.capital_gains_tax_primary_residence_deduction =
        CAPITAL_GAINS_TAX_PRIMARY_RESIDENCE_DEDUCTION
        * IntMin(2, f.self.is_primary_residence)]

\* The deduction step with the deduction reset before the error is raised
PrimaryResidenceDeductionResetOnError(f) ==
    IF f.self.is_primary_residence \in {0, 1, 2}
    THEN [f EXCEPT !.self.capital_gains_tax_primary_residence_deduction =
             CAPITAL_GAINS_TAX_PRIMARY_RESIDENCE_DEDUCTION * f.self.is_primary_residence]
    ELSE [f EXCEPT !.self.capital_gains_tax_primary_residence_deduction = 0,
                   !.raised = "ValueError"]

RE_calculate_capital_gains_tax_primary_residence_deduction(f) ==
    IF f.self.is_primary_residence \in {0, 1, 2}
    THEN [f EXCEPT !.self.capital_gains_tax_primary_residence_deduction =
             CAPITAL_GAINS_TAX_PRIMARY_RESIDENCE_DEDUCTION * f.self.is_primary_residence]
    ELSE [f EXCEPT !.raised = "ValueError"]

\* max(0, x) for integers
IntMax(a, b) == IF a < b THEN b ELSE a

\* capital_gains without the floor at 0
CapitalGainsUnfloored(f) ==
    [f EXCEPT !.self.capital_gains =
        QSub(f.self.sale_proceeds_after_fees,
             QInt(f.self.acquisition_cost - f.self.depreciation_cumulative))]

RE_calculate_capital_gains(f) ==
    [f EXCEPT !.self.capital_gains =
        QMax(QInt(0),
             QSub(f.self.sale_proceeds_after_fees,
                  QInt(f.self.acquisition_cost - f.self.depreciation_cumulative)))]

\* capital_gains_tax_rate with the restoration tax on the day of its expiry too
CapitalGainsTaxRateSurchargedOnExpiry(f) ==
    LET national == IF f.self.calc_year < 5 THEN CAPITAL_GAINS_TAX_SHORT_NATIONAL
                    ELSE CAPITAL_GAINS_TAX_LONG_NATIONAL
        municipal == IF f.self.calc_year < 5 THEN CAPITAL_GAINS_TAX_SHORT_MUNICIPAL
                     ELSE CAPITAL_GAINS_TAX_LONG_MUNICIPAL
        rate == IF f.self.is_resident_for_tax_purposes
                THEN QAdd(QFrac(national), QFrac(municipal))
                ELSE QFrac(national)
    IN  [f EXCEPT !.self.capital_gains_tax_rate =
            IF ~DateLT(RESTORATION_TAX_EXPIRY, f.self.calc_date)
            THEN QTimesOnePlus(rate, RESTORATION_TAX)
            ELSE rate]

RE_calculate_capital_gains_tax_rate(f) ==
    LET national == IF f.self.calc_year < 5 THEN CAPITAL_GAINS_TAX_SHORT_NATIONAL
                    ELSE CAPITAL_GAINS_TAX_LONG_NATIONAL
        municipal == IF f.self.calc_year < 5 THEN CAPITAL_GAINS_TAX_SHORT_MUNICIPAL
                     ELSE CAPITAL_GAINS_TAX_LONG_MUNICIPAL
        rate == IF f.self.is_resident_for_tax_purposes
                THEN QAdd(QFrac(national), QFrac(municipal))
                ELSE QFrac(national)
    IN  [f EXCEPT !.self.capital_gains_tax_rate =
            IF DateLT(f.self.calc_date, RESTORATION_TAX_EXPIRY)
            THEN QTimesOnePlus(rate, RESTORATION_TAX)
            ELSE rate]

RE_calculate_capital_gains_tax(f) ==
    [f EXCEPT !.self.capital_gains_tax =
        IntMax(0, QTrunc(QSub(QMul(f.self.capital_gains, f.self.capital_gains_tax_rate),
                              QInt(f.self.capital_gains_tax_primary_residence_deduction))))]

RE_calculate_sale_proceeds_net(f) ==
    [f EXCEPT !.self.sale_proceeds_net =
        QSub(f.self.sale_proceeds_after_fees, QInt(f.self.capital_gains_tax))]

RE_calculate_net_income_on_realestate(f) ==
    [f EXCEPT !.self.net_income_on_realestate =
        QSub(QAdd(f.self.sale_proceeds_net, f.self.cumulative_net_income),
             QInt(f.self.purchase_price_and_fees))]

\* The steps of calculate_all_fields, in the order it calls them
RealEstateSteps ==
    << "purchase_date", "renewal_income_rate", "rental_management_rental_fee",
       "rental_management_renewal_fee",
       "purchase_price_financed", "mortgage", "purchase_price_building",
       "purchase_price_land", "purchase_agent_fee", "purchase_other_transaction_fees",
       "purchase_price_and_fees", "purchase_initial_outlay",
       "depreciation_years", "depreciation_percentage", "depreciation_annual",
       "rental_income", "renewal_income", "total_income", "maintenance_expense",
       "monthly_fees_annualized", "rental_management_renewal_expense",
       "rental_management_rental_expense", "rental_management_total_expense",
       "property_tax_expense", "total_expense", "depreciation", "calc_date",
       "net_income_before_taxes", "net_income_taxable", "home_loan_deduction",
       "income_tax", "income_tax_real_estate", "net_income_after_taxes",
       "cumulative_net_income",
       "depreciation_cumulative", "sale_agent_fee", "sale_other_transaction_fees",
       "depreciated_building_value", "book_value", "sale_proceeds_after_fees",
       "acquisition_cost", "capital_gains_tax_primary_residence_deduction",
       "capital_gains", "capital_gains_tax_rate", "capital_gains_tax",
       "sale_proceeds_net", "net_income_on_realestate" >>

RealEstateStep(name, f) ==
    CASE name = "purchase_date" -> RE_calculate_purchase_date(f)
      [] name = "renewal_income_rate" -> RE_calculate_renewal_income_rate(f)
      [] name = "rental_management_rental_fee" ->
             RE_calculate_rental_management_rental_fee(f)
      [] name = "rental_management_renewal_fee" ->
             RE_calculate_rental_management_renewal_fee(f)
      [] name = "purchase_price_financed" -> RE_calculate_purchase_price_financed(f)
      [] name = "mortgage" -> RE_calculate_mortgage(f)
      [] name = "purchase_price_building" -> RE_calculate_purchase_price_building(f)
      [] name = "purchase_price_land" -> RE_calculate_purchase_price_land(f)
      [] name = "purchase_agent_fee" -> RE_calculate_purchase_agent_fee(f)
      [] name = "purchase_other_transaction_fees" ->
             RE_calculate_purchase_other_transaction_fees(f)
      [] name = "purchase_price_and_fees" -> RE_calculate_purchase_price_and_fees(f)
      [] name = "purchase_initial_outlay" -> RE_calculate_purchase_initial_outlay(f)
      [] name = "depreciation_years" -> RE_calculate_depreciation_years(f)
      [] name = "depreciation_percentage" -> RE_calculate_depreciation_percentage(f)
      [] name = "depreciation_annual" -> RE_calculate_depreciation_annual(f)
      [] name = "rental_income" -> RE_calculate_rental_income(f)
      [] name = "renewal_income" -> RE_calculate_renewal_income(f)
      [] name = "total_income" -> RE_calculate_total_income(f)
      [] name = "maintenance_expense" -> RE_calculate_maintenance_expense(f)
      [] name = "monthly_fees_annualized" -> RE_calculate_monthly_fees_annualized(f)
      [] name = "rental_management_renewal_expense" ->
             RE_calculate_rental_management_renewal_expense(f)
      [] name = "rental_management_rental_expense" ->
             RE_calculate_rental_management_rental_expense(f)
      [] name = "rental_management_total_expense" ->
             RE_calculate_rental_management_total_expense(f)
      [] name = "property_tax_expense" -> RE_calculate_property_tax_expense(f)
      [] name = "total_expense" -> RE_calculate_total_expense(f)
      [] name = "depreciation" -> RE_calculate_depreciation(f)
      [] name = "calc_date" -> RE_calculate_calc_date(f)
      [] name = "net_income_before_taxes" -> RE_calculate_net_income_before_taxes(f)
      [] name = "net_income_taxable" -> RE_calculate_net_income_taxable(f)
      [] name = "home_loan_deduction" -> RE_calculate_home_loan_deduction(f)
      [] name = "income_tax" -> RE_calculate_income_tax(f)
      [] name = "income_tax_real_estate" -> RE_calculate_income_tax_real_estate(f)
      [] name = "net_income_after_taxes" -> RE_calculate_net_income_after_taxes(f)
      [] name = "cumulative_net_income" -> RE_calculate_cumulative_net_income(f)
      [] name = "depreciation_cumulative" -> RE_calculate_depreciation_cumulative(f)
      [] name = "sale_agent_fee" -> RE_calculate_sale_agent_fee(f)
      [] name = "sale_other_transaction_fees" ->
             RE_calculate_sale_other_transaction_fees(f)
      [] name = "depreciated_building_value" ->
             RE_calculate_depreciated_building_value(f)
      [] name = "book_value" -> RE_calculate_book_value(f)
      [] name = "sale_proceeds_after_fees" -> RE_calculate_sale_proceeds_after_fees(f)
      [] name = "acquisition_cost" -> RE_calculate_acquisition_cost(f)
      [] name = "capital_gains_tax_primary_residence_deduction" ->
             RE_calculate_capital_gains_tax_primary_residence_deduction(f)
      [] name = "capital_gains" -> RE_calculate_capital_gains(f)
      [] name = "capital_gains_tax_rate" -> RE_calculate_capital_gains_tax_rate(f)
      [] name = "capital_gains_tax" -> RE_calculate_capital_gains_tax(f)
      [] name = "sale_proceeds_net" -> RE_calculate_sale_proceeds_net(f)
      [] name = "net_income_on_realestate" -> RE_calculate_net_income_on_realestate(f)

\* The steps lo..hi in order, the first half and then the second; a step that
\* raises ends the call
RECURSIVE RealEstateRun(_, _, _)
RealEstateRun(f, lo, hi) ==
    IF lo = hi THEN RealEstateStep(RealEstateSteps[lo], f)
    ELSE LET mid == (lo + hi) \div 2
             g == RealEstateRun(f, lo, mid)
         IN  IF g.raised # "none" THEN g ELSE RealEstateRun(g, mid + 1, hi)

\* calculate_all_fields() in the call frame f
RE_calculate_all_fields(f) == RealEstateRun(f, 1, Len(RealEstateSteps))

\* The default arguments of RealEstateCalc.__init__
RealEstateCalc_defaults ==
    [purchase_date |-> None, purchase_price |-> 0,
     building_to_land_ratio |-> Frac(7, 10), size |-> 0, age |-> 0,
     mortgage_loan_to_value |-> Frac(0, 1), bank_valuation_to_actual |-> Frac(1, 1),
     mortgage_tenor |-> 0, mortgage_rate |-> Frac(0, 1),
     mortgage_initiation_fees |-> 0, renovation_cost |-> 0,
     agent_fee_variable |-> Frac(0, 1), agent_fee_fixed |-> 0,
     other_transaction_fees |-> Frac(0, 1),
     monthly_fees |-> 0, property_tax_rate |-> Frac(0, 1),
     maintenance_per_m2 |-> 1000, useful_life |-> 47, calc_year |-> 0,
     income_tax_calculator |-> None,
     gross_rental_yield |-> Frac(0, 1), renewal_income_rate |-> None,
     rental_management_rental_fee |-> None, rental_management_renewal_fee |-> None,
     is_primary_residence |-> 0, is_resident_for_tax_purposes |-> FALSE,
     sale_price |-> Some(QInt(0))]

\* RealEstateCalc(**a): __init__ sets the fields and calls calculate_all_fields
RealEstateCalc(a, heap, today) ==
    RE_calculate_all_fields([self |-> RealEstateCalc_fields(a), heap |-> heap,
                             today |-> today, raised |-> "none", copies |-> <<>>])

\* The default arguments of IncomeTaxCalc.__init__
IncomeTaxCalc_defaults ==
    [employment_income |-> 0, rent |-> 0, is_rent_program |-> FALSE,
     other_income |-> 0, life_insurance_premium |-> 0, medical_expense |-> 0,
     number_of_dependents |-> 0, social_security_expense |-> None,
     tax_deduction |-> 0, is_resident_for_tax_purposes |-> TRUE,
     current_date |-> None]

\* IncomeTaxCalc(**a): __init__ sets the fields and calls calculate_all_fields
IncomeTaxCalc(a, today) == Tax_calculate_all_fields(IncomeTaxCalc_fields(a), today)

-----------------------------------------------------------------------------
(* A caller of Mortgage alone: it constructs a loan, and then assigns an   *)
(* attribute and calls calculate_all_fields().                             *)

MaxTenor == 2

LoanPrincipals == { 0, 1, 1000, 120000, 1000000, 35000000 }

LoanTenors == 0..MaxTenor

\* No interest, and 1200 % a year: a monthly rate of 1, whose growth factor 2
\* keeps the closed forms of ipmt and ppmt inside the machine integers
LoanRates == { Frac(0, 1), Frac(12, 1) }

\* The powers of the growth factor stay inside the machine integers
LoanComputable(tenor, rate) == rate.n = 0 \/ tenor * MONTHS_PER_YEAR < 31

LoanCalls == { "Mortgage", "Mortgage.calculate_all_fields" }

NoLoan == Mortgage(0, 0, Frac(0, 1))

InitMortgage ==
    /\ \E principal \in LoanPrincipals, tenor \in LoanTenors, rate \in LoanRates :
          /\ LoanComputable(tenor, rate)
          /\ loan = Mortgage(principal, tenor, rate)
    /\ probe = None
    /\ income_tax_calc = None
    /\ real_estate_calc = None
    /\ arguments = None
    /\ recomputes = 0
    /\ raised = "none"
    /\ last_call = "Mortgage"
    /\ copies = <<>>
    /\ second_calc = None
    /\ running = <<>>

\* loan.principal = principal
MortgageSetPrincipal ==
    /\ last_call \in LoanCalls
    /\ \E principal \in LoanPrincipals : loan' = [loan EXCEPT !.principal = principal]
    /\ last_call' = "setattr"
    /\ UNCHANGED <<probe, income_tax_calc, real_estate_calc, arguments, recomputes, raised, copies, interleaved>>

\* loan.tenor = tenor
MortgageSetTenor ==
    /\ last_call \in LoanCalls
    /\ \E tenor \in LoanTenors :
          /\ LoanComputable(tenor, loan.rate)
          /\ loan' = [loan EXCEPT !.tenor = tenor]
    /\ last_call' = "setattr"
    /\ UNCHANGED <<probe, income_tax_calc, real_estate_calc, arguments, recomputes, raised, copies, interleaved>>

\* loan.rate = rate
MortgageSetRate ==
    /\ last_call \in LoanCalls
    /\ \E rate \in LoanRates :
          /\ LoanComputable(loan.tenor, rate)
          /\ loan' = [loan EXCEPT !.rate = rate]
    /\ last_call' = "setattr"
    /\ UNCHANGED <<probe, income_tax_calc, real_estate_calc, arguments, recomputes, raised, copies, interleaved>>

\* loan.calculate_all_fields()
MortgageCalculate ==
    /\ loan' = Mortgage_calculate_all_fields(loan)
    /\ last_call' = "Mortgage.calculate_all_fields"
    /\ UNCHANGED <<probe, income_tax_calc, real_estate_calc, arguments, recomputes, raised, copies, interleaved>>

NextMortgage ==
    \/ MortgageSetPrincipal
    \/ MortgageSetTenor
    \/ MortgageSetRate
    \/ MortgageCalculate

SpecMortgage == InitMortgage /\ [][NextMortgage]_vars

\* C9: after the constructor or calculate_all_fields, a loan of tenor 0 has
\* three empty schedules and a monthly_payment of 0, whatever its principal and
\* rate, and a loan of tenor > 0 has tenor * 12 entries in each schedule and the
\* first entry of the amortization schedule as its monthly_payment.
C9_TenorShapesSchedules ==
    last_call \in LoanCalls =>
        /\ loan.tenor = 0 =>
              /\ Len(loan.interest_schedule) = 0
              /\ Len(loan.principal_schedule) = 0
              /\ Len(loan.amortization_schedule) = 0
              /\ loan.monthly_payment = QInt(0)
        /\ loan.tenor > 0 =>
              /\ Len(loan.interest_schedule) = loan.tenor * 12
              /\ Len(loan.principal_schedule) = loan.tenor * 12
              /\ Len(loan.amortization_schedule) = loan.tenor * 12
              /\ loan.monthly_payment = loan.amortization_schedule[1]

\* A loan with interest whose tenor was set to 0 and that was recalculated
C9_Witness ==
    /\ last_call = "Mortgage.calculate_all_fields"
    /\ loan.tenor = 0
    /\ loan.principal > 0
    /\ loan.rate.n > 0
    /\ loan.amortization_schedule = <<>>

\* C10: after the constructor or calculate_all_fields, a loan of rate 0,
\* principal P and tenor T > 0 pays P / (T * 12) of principal and 0 of interest
\* in every period, so every amortization entry and the monthly_payment are
\* P / (T * 12) too.
C10_ZeroRateEqualPayments ==
    (last_call \in LoanCalls /\ loan.rate.n = 0 /\ loan.tenor > 0) =>
        LET payment == QNorm(0, loan.principal, loan.tenor * 12)
        IN  /\ \A k \in 1..(loan.tenor * 12) :
                  /\ loan.principal_schedule[k] = payment
                  /\ loan.interest_schedule[k] = QInt(0)
                  /\ loan.amortization_schedule[k] = payment
            /\ loan.monthly_payment = payment

\* A recalculated loan of rate 0 whose equal payment is not a whole amount
C10_Witness ==
    /\ last_call = "Mortgage.calculate_all_fields"
    /\ loan.rate.n = 0
    /\ loan.tenor > 1
    /\ loan.principal = 1000
    /\ loan.monthly_payment.n # 0

\* 0 < x
QPositive(x) == x.i > 0 \/ (x.i = 0 /\ x.n > 0)

\* C11: after the constructor or calculate_all_fields, a loan of principal
\* P > 0, tenor T > 0 and rate R > 0 pays the same total, its monthly_payment,
\* in every period; the interest part falls and the principal part rises from
\* each period to the next; and the principal parts add up to P.
C11_LevelPaymentAmortizes ==
    (last_call \in LoanCalls /\ loan.principal > 0 /\ loan.tenor > 0 /\ loan.rate.n > 0) =>
        LET periods == loan.tenor * 12
        IN  /\ \A k \in 1..periods :
                  /\ loan.amortization_schedule[k] = loan.monthly_payment
                  /\ loan.amortization_schedule[k] =
                        QAdd(loan.interest_schedule[k], loan.principal_schedule[k])
            /\ \A k \in 1..(periods - 1) :
                  /\ QPositive(QSub(loan.interest_schedule[k],
                                     loan.interest_schedule[k + 1]))
                  /\ QPositive(QSub(loan.principal_schedule[k + 1],
                                     loan.principal_schedule[k]))
            /\ QSum(loan.principal_schedule) = QInt(loan.principal)

\* A recalculated loan with interest, over more than one year, whose payment is
\* not a whole amount
C11_Witness ==
    /\ last_call = "Mortgage.calculate_all_fields"
    /\ loan.principal = 1000000
    /\ loan.tenor > 1
    /\ loan.rate.n > 0
    /\ loan.monthly_payment.n # 0
    /\ QPositive(loan.interest_schedule[loan.tenor * 12])

-----------------------------------------------------------------------------
(* A caller of the bracket lookup alone: one call after another, each on   *)
(* one of the two tables of the class.                                     *)

Todays == { Date(2026, 11, 4), Date(2038, 1, 1) }

TaxTables == { "employment", "national" }

TableRules(table) ==
    IF table = "employment" THEN EMPLOYMENT_INCOME_FOR_TAX_TABLE
    ELSE NATIONAL_INCOME_TAX_TABLE

\* a + q for a finite a
NumPlus(a, q) == Num(a.g, QAdd(a.q, q))

Half == [i |-> 0, n |-> 1, d |-> 2]

\* The finite bounds of the two tables
TableBounds ==
    LET rows == UNION { { TableRules(t)[k] : k \in DOMAIN TableRules(t) } : t \in TaxTables }
    IN  { b \in UNION { { r.bounds[1], r.bounds[2] } : r \in rows } : ~b.inf }

\* The values looked up: every bound, the integer below it, the value half a
\* unit above it (between two brackets when the bound is an upper one) and
\* the integer above it
LookupValues ==
    TableBounds
    \cup { NumPlus(b, QInt(-1)) : b \in TableBounds }
    \cup { NumPlus(b, Half) : b \in TableBounds }
    \cup { NumPlus(b, QInt(1)) : b \in TableBounds }

\* One call __lookup_in_tax_table(lookup_value, rules) and its outcome
LookupCall(table, lookup_value) ==
    LET found == lookup_in_tax_table(lookup_value, TableRules(table))
    IN  [table |-> table, lookup_value |-> lookup_value,
         raised |-> found.raised, rule |-> found.rule]

InitLookup ==
    /\ \E table \in TaxTables, lookup_value \in LookupValues :
          probe = LookupCall(table, lookup_value)
    /\ \E today \in Todays : income_tax_calc = IncomeTaxCalc(IncomeTaxCalc_defaults, today).self
    /\ loan = NoLoan
    /\ real_estate_calc = None
    /\ arguments = None
    /\ recomputes = 0
    /\ raised = "none"
    /\ last_call = "lookup_in_tax_table"
    /\ copies = <<>>
    /\ second_calc = None
    /\ running = <<>>

Lookup ==
    /\ \E table \in TaxTables, lookup_value \in LookupValues :
          probe' = LookupCall(table, lookup_value)
    /\ raised' = probe'.raised
    /\ last_call' = "lookup_in_tax_table"
    /\ UNCHANGED <<loan, income_tax_calc, real_estate_calc, arguments, recomputes, copies, interleaved>>

NextLookup == Lookup

SpecLookup == InitLookup /\ [][NextLookup]_vars

\* The rules of the table of the call whose inclusive bounds hold its value
Holding(call) ==
    { k \in DOMAIN TableRules(call.table) :
        /\ NumLE(TableRules(call.table)[k].bounds[1], call.lookup_value)
        /\ NumLE(call.lookup_value, TableRules(call.table)[k].bounds[2]) }

\* C5: a lookup returns the rule whose inclusive bounds hold the value, and no
\* second rule holds it; when no rule holds the value (a negative one, say) it
\* raises ValueError and returns no rule; and the call changes nothing of
\* the tax profile.
C5_LookupFindsTheBracket ==
    [][probe' # probe =>
         /\ Cardinality(Holding(probe')) <= 1
         /\ Holding(probe') # {} =>
               /\ probe'.raised = "none"
               /\ \E k \in Holding(probe') :
                     probe'.rule = Some(TableRules(probe'.table)[k])
         /\ Holding(probe') = {} =>
               /\ probe'.raised = "ValueError"
               /\ probe'.rule = None
         /\ income_tax_calc' = income_tax_calc]_vars

\* A lookup of a negative value, which raised
C5_Witness ==
    /\ probe.lookup_value = N(-1)
    /\ probe.table = "national"
    /\ probe.raised = "ValueError"
    /\ probe.rule = None

\* the value is an integer >= 0
IsNonNegativeInteger(v) == ~v.inf /\ v.q.n = 0 /\ (v.g > 0 \/ (v.g = 0 /\ v.q.i >= 0))

\* C6, as the specification states it: either table starts at 0, each rule
\* starts one above the end of the rule before it, the last rule has no upper
\* bound, and so a lookup of an integer >= 0 finds exactly one rule.
C6_TablesCoverAllIntegers ==
    /\ \A t \in TaxTables :
          LET rules == TableRules(t)
          IN  /\ rules[1].bounds[1] = N(0)
              /\ \A k \in 1..(Len(rules) - 1) :
                    NumPlus(rules[k].bounds[2], QInt(1)) = rules[k + 1].bounds[1]
              /\ rules[Len(rules)].bounds[2].inf
    /\ IsNonNegativeInteger(probe.lookup_value) =>
          (probe.raised = "none" /\ Cardinality(Holding(probe)) = 1)

-----------------------------------------------------------------------------
(* A caller of IncomeTaxCalc alone: it constructs a profile, and then      *)
(* assigns an attribute and calls calculate_all_fields().  A call that     *)
(* raises leaves the fields its earlier steps assigned.                    *)

EmploymentIncomes == { 0, 3000000, 10000000, 100000000 }

OtherIncomes == { -5000000, 0, 2000000 }

TaxDeductions == { 0, 400000, 50000000 }

TaxCalls == { "IncomeTaxCalc", "IncomeTaxCalc.calculate_all_fields" }

InitTax ==
    /\ \E employment_income \in EmploymentIncomes, other_income \in OtherIncomes,
          tax_deduction \in TaxDeductions, today \in Todays :
          LET call == IncomeTaxCalc(
                          [IncomeTaxCalc_defaults EXCEPT
                             !.employment_income = employment_income,
                             !.other_income = other_income,
                             !.tax_deduction = tax_deduction], today)
          IN  /\ call.raised = "none"
              /\ income_tax_calc = call.self
    /\ loan = NoLoan
    /\ probe = None
    /\ real_estate_calc = None
    /\ arguments = None
    /\ recomputes = 0
    /\ raised = "none"
    /\ last_call = "IncomeTaxCalc"
    /\ copies = <<>>
    /\ second_calc = None
    /\ running = <<>>

\* income_tax_calc.employment_income = employment_income, a negative one too
TaxSetEmploymentIncome ==
    /\ last_call \in TaxCalls
    /\ \E employment_income \in EmploymentIncomes \cup { -1 } :
          income_tax_calc' = [income_tax_calc EXCEPT !.employment_income = employment_income]
    /\ last_call' = "setattr"
    /\ UNCHANGED <<loan, probe, real_estate_calc, arguments, recomputes, raised, copies, interleaved>>

\* income_tax_calc.other_income = other_income
TaxSetOtherIncome ==
    /\ last_call \in TaxCalls
    /\ \E other_income \in OtherIncomes :
          income_tax_calc' = [income_tax_calc EXCEPT !.other_income = other_income]
    /\ last_call' = "setattr"
    /\ UNCHANGED <<loan, probe, real_estate_calc, arguments, recomputes, raised, copies, interleaved>>

\* income_tax_calc.tax_deduction = tax_deduction
TaxSetTaxDeduction ==
    /\ last_call \in TaxCalls
    /\ \E tax_deduction \in TaxDeductions :
          income_tax_calc' = [income_tax_calc EXCEPT !.tax_deduction = tax_deduction]
    /\ last_call' = "setattr"
    /\ UNCHANGED <<loan, probe, real_estate_calc, arguments, recomputes, raised, copies, interleaved>>

\* income_tax_calc.is_resident_for_tax_purposes = not income_tax_calc.is_resident_for_tax_purposes
TaxSetResident ==
    /\ last_call \in TaxCalls
    /\ income_tax_calc' = [income_tax_calc EXCEPT !.is_resident_for_tax_purposes = ~@]
    /\ last_call' = "setattr"
    /\ UNCHANGED <<loan, probe, real_estate_calc, arguments, recomputes, raised, copies, interleaved>>

\* income_tax_calc.calculate_all_fields()
TaxCalculate ==
    /\ \E today \in Todays :
          LET call == Tax_calculate_all_fields(income_tax_calc, today)
          IN  /\ income_tax_calc' = call.self
              /\ raised' = call.raised
    /\ last_call' = "IncomeTaxCalc.calculate_all_fields"
    /\ UNCHANGED <<loan, probe, real_estate_calc, arguments, recomputes, copies, interleaved>>

NextTax ==
    \/ TaxSetEmploymentIncome
    \/ TaxSetOtherIncome
    \/ TaxSetTaxDeduction
    \/ TaxSetResident
    \/ TaxCalculate

SpecTax == InitTax /\ [][NextTax]_vars

\* C4: after the constructor or a calculate_all_fields that returned, whatever
\* the inputs (an other_income below 0, a tax_deduction above the tax),
\* taxable_income >= 0 and total_income_tax >= 0.
C4_TaxesAreFloored ==
    (last_call \in TaxCalls /\ raised = "none") =>
        /\ QLE(QInt(0), income_tax_calc.taxable_income)
        /\ QLE(QInt(0), income_tax_calc.total_income_tax)

\* A recalculated profile whose deductions exceed its income and whose
\* tax_deduction exceeds its tax: both floors act
C4_Witness ==
    /\ last_call = "IncomeTaxCalc.calculate_all_fields"
    /\ raised = "none"
    /\ income_tax_calc.other_income < 0
    /\ income_tax_calc.tax_deduction > 0
    /\ QLT(income_tax_calc.total_income_for_tax, QInt(income_tax_calc.deduction_total))
    /\ income_tax_calc.taxable_income = QInt(0)
    /\ income_tax_calc.total_income_tax = QInt(0)

\* C17: after the constructor or a calculate_all_fields that returned,
\* national_income_tax is the truncation of (taxable_income - the lower bound
\* of its bracket) x the bracket's rate + the bracket's previous_brackets_sum,
\* the whole multiplied by 1.021 before the truncation exactly when the
\* profile's date is before 2038-01-01.
C17_NationalIncomeTax ==
    (last_call \in TaxCalls /\ raised = "none") =>
        LET self == income_tax_calc
            bracket == self.national_income_tax_bracket
            amount == QAdd(QMulFrac(QSub(self.taxable_income, bracket.bounds[1].q),
                                    bracket.rate.n, bracket.rate.d),
                           QInt(bracket.previous_brackets_sum))
        IN  /\ InBounds(Num(0, self.taxable_income), bracket.bounds)
            /\ self.national_income_tax =
                  IF DateLT(Val(self.current_date), Date(2038, 1, 1))
                  THEN QTrunc(QMulFrac(amount, 1021, 1000))
                  ELSE QTrunc(amount)

\* A profile dated 2038-01-01 was recalculated in a bracket above the first,
\* and its tax has no surcharge in it
C17_Witness ==
    /\ last_call = "IncomeTaxCalc.calculate_all_fields"
    /\ raised = "none"
    /\ income_tax_calc.current_date = Some(Date(2038, 1, 1))
    /\ income_tax_calc.national_income_tax_bracket.previous_brackets_sum > 0
    /\ income_tax_calc.national_income_tax =
          QTrunc(QAdd(QMulFrac(QSub(income_tax_calc.taxable_income,
                                    income_tax_calc.national_income_tax_bracket.bounds[1].q),
                               income_tax_calc.national_income_tax_rate.n,
                               income_tax_calc.national_income_tax_rate.d),
                      QInt(income_tax_calc.national_income_tax_bracket.previous_brackets_sum)))

\* C19: after the constructor or a calculate_all_fields that returned, with an
\* employment income after the rent program in the top segment of the table
\* (12,000,000 and above), employment_income_deduction is 2,200,000.
C19_TopSegmentDeduction ==
    (/\ last_call \in TaxCalls /\ raised = "none"
     /\ ~QPositive(QSub(QInt(12000000), income_tax_calc.employment_income_after_rent_program)))
        => income_tax_calc.employment_income_deduction = QInt(2200000)

\* int((min(x, 1390000 * 12) * 0.0996 + min(x, 635000 * 12) * 0.183) * 0.5) for
\* x the employment income after the rent program
SocialSecurityEstimate(x) ==
    QTrunc(QMulFrac(QAdd(QMulFrac(QMin(x, QInt(16680000)), 996, 10000),
                         QMulFrac(QMin(x, QInt(7620000)), 183, 1000)),
                    1, 2))

\* C20: every profile here was constructed without social_security_expense.
\* After a calculate_all_fields that returned, whatever was assigned before it,
\* social_security_expense is the estimate from the employment income after the
\* rent program as it is now, and deduction_total and taxable_income are
\* computed with that estimate.
C20_EstimateFollowsIncome ==
    (last_call = "IncomeTaxCalc.calculate_all_fields" /\ raised = "none") =>
        LET self == income_tax_calc
            estimate == SocialSecurityEstimate(self.employment_income_after_rent_program)
            deduction_total ==
                IntMin(2000000, self.medical_expense) + estimate
                + self.life_insurance_premium + DEDUCTION_BASIC + self.deduction_dependents
        IN  /\ self.social_security_expense = Some(estimate)
            /\ self.deduction_total = deduction_total
            /\ self.taxable_income =
                  QMax(QInt(0), QSub(self.total_income_for_tax, QInt(deduction_total)))

-----------------------------------------------------------------------------
(* A caller of RealEstateCalc: it holds a tax profile, constructs a        *)
(* scenario (attached to the profile or not), and then assigns an          *)
(* attribute and calls calculate_all_fields().  A constructor that raises  *)
(* gives the caller no object, and the caller stops there; a               *)
(* calculate_all_fields() that raises leaves the fields its earlier steps  *)
(* assigned.                                                               *)

MaxYear == 2

MaxRecomputes == 2

CalcYears == (-1)..MaxYear

SalePrices == { None, Some(QInt(0)), Some(QInt(50000000)) }

ResidenceCodes == { 0, 1, 2, 3 }

\* An all cash purchase that is rented out, and no tax profile
CashRental ==
    [RealEstateCalc_defaults EXCEPT
       !.purchase_date = Some(Date(2024, 2, 29)), !.purchase_price = 10000000,
       !.size = 40, !.gross_rental_yield = Frac(5, 100)]

\* A new flat bought on a loan without interest, with the caller's tax profile
FinancedHome ==
    [RealEstateCalc_defaults EXCEPT
       !.purchase_date = Some(Date(2036, 6, 1)), !.purchase_price = 30000000,
       !.size = 60, !.mortgage_loan_to_value = Frac(8, 10), !.mortgage_tenor = 2,
       !.agent_fee_variable = Frac(3, 100), !.agent_fee_fixed = 60000,
       !.other_transaction_fees = Frac(1, 100), !.monthly_fees = 10000,
       !.property_tax_rate = Frac(1, 100), !.gross_rental_yield = Frac(4, 100),
       !.income_tax_calculator = Some("income_tax_calc"),
       !.is_resident_for_tax_purposes = TRUE]

\* A second-hand flat bought wholly on a loan with interest, with the
\* caller's tax profile
SecondHandRental ==
    [RealEstateCalc_defaults EXCEPT
       !.purchase_price = 20000000, !.size = 55, !.age = 20,
       !.mortgage_loan_to_value = Frac(1, 1), !.mortgage_tenor = 1,
       !.mortgage_rate = Frac(12, 1), !.mortgage_initiation_fees = 100000,
       !.renovation_cost = 500000, !.gross_rental_yield = Frac(6, 100),
       !.income_tax_calculator = Some("income_tax_calc")]

RealEstateArguments ==
    { [a EXCEPT !.calc_year = calc_year, !.sale_price = sale_price,
                !.is_primary_residence = is_primary_residence] :
        a \in { CashRental, FinancedHome, SecondHandRental },
        calc_year \in { 0, MaxYear }, sale_price \in SalePrices,
        is_primary_residence \in ResidenceCodes }

\* The values date.today() may return to a call on the object self, which asks
\* for it only when purchase_date is None
TodaysRead(self) ==
    IF self.purchase_date = None THEN Todays ELSE { CHOOSE today \in Todays : TRUE }

RealEstateCalls == { "RealEstateCalc", "RealEstateCalc.calculate_all_fields" }

\* The caller's tax profile under its reference, and no copy of it
Heap(calc) == [income_tax_calc |-> calc, copied_calc |-> None]

Init ==
    /\ \E today \in Todays :
          income_tax_calc =
              IncomeTaxCalc([IncomeTaxCalc_defaults EXCEPT
                               !.employment_income = 10000000], today).self
    /\ real_estate_calc = None
    /\ arguments = None
    /\ recomputes = 0
    /\ raised = "none"
    /\ last_call = "IncomeTaxCalc"
    /\ loan = NoLoan
    /\ probe = None
    /\ copies = <<>>
    /\ second_calc = None
    /\ running = <<>>

\* real_estate_calc = RealEstateCalc(**a)
RealEstateNew ==
    /\ last_call = "IncomeTaxCalc"
    /\ \E a \in RealEstateArguments :
       \E today \in TodaysRead(a) :
       \E call \in { RealEstateCalc(a, Heap(income_tax_calc), today) } :
              /\ real_estate_calc' = IF call.raised = "none" THEN Some(call.self) ELSE None
              /\ income_tax_calc' = call.heap.income_tax_calc
              /\ raised' = call.raised
              /\ copies' = call.copies
              /\ arguments' = Some(a)
    /\ recomputes' = 1
    /\ last_call' = "RealEstateCalc"
    /\ UNCHANGED <<loan, probe, interleaved>>

\* real_estate_calc.calc_year = calc_year
RealEstateSetCalcYear ==
    /\ real_estate_calc # None
    /\ raised = "none"
    /\ last_call \in RealEstateCalls
    /\ \E calc_year \in CalcYears :
          real_estate_calc' = Some([Val(real_estate_calc) EXCEPT !.calc_year = calc_year])
    /\ recomputes' = 0
    /\ last_call' = "setattr"
    /\ arguments' = None
    /\ UNCHANGED <<loan, probe, income_tax_calc, raised, copies, interleaved>>

\* real_estate_calc.sale_price = sale_price
RealEstateSetSalePrice ==
    /\ real_estate_calc # None
    /\ raised = "none"
    /\ last_call \in RealEstateCalls
    /\ \E sale_price \in SalePrices :
          real_estate_calc' = Some([Val(real_estate_calc) EXCEPT !.sale_price = sale_price])
    /\ recomputes' = 0
    /\ last_call' = "setattr"
    /\ arguments' = None
    /\ UNCHANGED <<loan, probe, income_tax_calc, raised, copies, interleaved>>

\* real_estate_calc.is_primary_residence = is_primary_residence
RealEstateSetIsPrimaryResidence ==
    /\ real_estate_calc # None
    /\ raised = "none"
    /\ last_call \in RealEstateCalls
    /\ \E is_primary_residence \in ResidenceCodes :
          real_estate_calc' =
              Some([Val(real_estate_calc) EXCEPT
                      !.is_primary_residence = is_primary_residence])
    /\ recomputes' = 0
    /\ last_call' = "setattr"
    /\ arguments' = None
    /\ UNCHANGED <<loan, probe, income_tax_calc, raised, copies, interleaved>>

\* real_estate_calc.calculate_all_fields()
RealEstateCalculate ==
    /\ real_estate_calc # None
    /\ raised = "none"
    /\ recomputes < MaxRecomputes
    /\ \E today \in TodaysRead(Val(real_estate_calc)) :
       \E call \in { RE_calculate_all_fields(
                          [self |-> Val(real_estate_calc), heap |-> Heap(income_tax_calc),
                           today |-> today, raised |-> "none", copies |-> <<>>]) } :
              /\ real_estate_calc' = Some(call.self)
              /\ income_tax_calc' = call.heap.income_tax_calc
              /\ raised' = call.raised
              /\ copies' = call.copies
    /\ recomputes' = recomputes + 1
    /\ last_call' = "RealEstateCalc.calculate_all_fields"
    /\ arguments' = None
    /\ UNCHANGED <<loan, probe, interleaved>>

Next ==
    \/ RealEstateNew
    \/ RealEstateSetCalcYear
    \/ RealEstateSetSalePrice
    \/ RealEstateSetIsPrimaryResidence
    \/ RealEstateCalculate

Spec == Init /\ [][Next]_vars

-----------------------------------------------------------------------------
(* Properties of the scenario.                                             *)

\* The call that just ended computed the scenario: the constructor or
\* calculate_all_fields()
Computed == last_call \in RealEstateCalls

\* The inputs of the call that just ended: the object's attributes, or the
\* arguments of a constructor that raised and left no object
Supplied == IF real_estate_calc # None THEN Val(real_estate_calc) ELSE Val(arguments)

\* A full recompute of a copy of the scenario, at evaluation year y
RecomputedAt(self, y) ==
    RE_calculate_all_fields(
        [self |-> [self EXCEPT !.calc_year = y], heap |-> Heap(income_tax_calc),
         today |-> CHOOSE today \in Todays : TRUE, raised |-> "none", copies |-> <<>>]).self

\* The sum of net_income_after_taxes(y) for y in 0..year, each term from a full
\* recompute at y
RECURSIVE NetIncomeAfterTaxesSum(_, _)
NetIncomeAfterTaxesSum(self, year) ==
    IF year < 0 THEN QInt(0)
    ELSE QAdd(NetIncomeAfterTaxesSum(self, year - 1),
              RecomputedAt(self, year).net_income_after_taxes)

\* C1: after a full recompute at evaluation year Y >= 0, cumulative_net_income
\* is net_income_after_taxes(Y) plus the cumulative_net_income of a recompute at
\* Y - 1, is net_income_after_taxes(0) at Y = 0, and so is the sum of
\* net_income_after_taxes(y) for y in 0..Y, each from a full recompute at y.
C1_CumulativeNetIncomeIsTheSum ==
    (Computed /\ raised = "none" /\ Supplied.calc_year >= 0) =>
        LET self == Val(real_estate_calc)
            Y == self.calc_year
        IN  /\ self.net_income_after_taxes = RecomputedAt(self, Y).net_income_after_taxes
            /\ Y = 0 => self.cumulative_net_income = self.net_income_after_taxes
            /\ Y >= 1 => self.cumulative_net_income =
                            QAdd(self.net_income_after_taxes,
                                 RecomputedAt(self, Y - 1).cumulative_net_income)
            /\ self.cumulative_net_income = NetIncomeAfterTaxesSum(self, Y)

\* A recompute at a year past the first returned, and the sum has more in it
\* than the last year's term
C1_Witness ==
    /\ Computed /\ raised = "none" /\ real_estate_calc # None
    /\ Val(real_estate_calc).calc_year >= 2
    /\ Val(real_estate_calc).income_tax_calculator # None
    /\ Val(real_estate_calc).cumulative_net_income
           # Val(real_estate_calc).net_income_after_taxes

\* C2: a call that computes the scenario, at any evaluation year and whether it
\* returns or raises, leaves every field of the attached tax profile as it was:
\* other_income, tax_deduction, current_date and every derived field.
C2_TaxProfileUntouched ==
    [][last_call' \in RealEstateCalls => income_tax_calc' = income_tax_calc]_vars

\* A scenario with the profile attached was recomputed past year 0, and its
\* income_tax is not the profile's: the copy was given other inputs
C2_Witness ==
    /\ Computed /\ raised = "none" /\ real_estate_calc # None
    /\ Val(real_estate_calc).income_tax_calculator # None
    /\ Val(real_estate_calc).calc_year >= 1
    /\ Val(real_estate_calc).income_tax # income_tax_calc.total_income_tax
    /\ Val(real_estate_calc).calc_date # Val(income_tax_calc.current_date)

\* C3: calculate_all_fields() right after a call that computed the scenario and
\* returned, with no assignment in between, returns too and leaves every field
\* of the scenario as it was.
C3_RecomputeIsIdempotent ==
    [][(/\ Computed /\ raised = "none" /\ real_estate_calc # None
        /\ last_call' = "RealEstateCalc.calculate_all_fields")
       => (raised' = "none" /\ real_estate_calc' = real_estate_calc)]_vars

\* The scenario was computed twice in a row since its last assignment
C3_Witness ==
    /\ last_call = "RealEstateCalc.calculate_all_fields"
    /\ raised = "none"
    /\ recomputes >= 2
    /\ Val(real_estate_calc).calc_year >= 1

C8_UnsetSalePriceIsBookValue ==
    (Computed /\ Supplied.is_primary_residence \in {0, 1, 2}) =>
        /\ Supplied.sale_price = None =>
              /\ raised = "none"
              /\ Val(real_estate_calc).sale_proceeds_after_fees =
                    QSub(Val(real_estate_calc).book_value,
                         QInt(Val(real_estate_calc).sale_agent_fee
                              + Val(real_estate_calc).sale_other_transaction_fees))
        /\ (Supplied.sale_price # None /\ raised = "none") =>
              Val(real_estate_calc).sale_proceeds_after_fees =
                  QSub(Val(Supplied.sale_price),
                       QInt(Val(real_estate_calc).sale_agent_fee
                            + Val(real_estate_calc).sale_other_transaction_fees))

\* The mortgage's twelve interest amounts of the evaluation year, the first at
\* month calc_year x 12 (counted from 0; at year -1, counted from the end)
InterestOfCalcYear(self) ==
    LET interest_schedule == Val(self.mortgage).interest_schedule
        first == IF self.calc_year >= 0 THEN self.calc_year * 12 + 1
                 ELSE Len(interest_schedule) - 11
    IN  QSumRange(interest_schedule, first, first + 11)

C15_TotalExpense ==
    (Computed /\ raised = "none") =>
        LET self == Val(real_estate_calc)
            running_costs ==
                self.maintenance_expense + self.monthly_fees_annualized
                + self.rental_management_total_expense + self.property_tax_expense
        IN  self.total_expense =
                IF self.mortgage # None /\ self.calc_year < Val(self.mortgage).tenor
                THEN running_costs
                     + QTrunc(QMulFrac(Val(self.mortgage).monthly_payment, 12, 1))
                ELSE running_costs

\* A scenario whose loan had ended at the evaluation year was computed, and
\* the payments of the loan are not in its expenses
C15_Witness ==
    /\ Computed /\ raised = "none" /\ real_estate_calc # None
    /\ Val(real_estate_calc).mortgage # None
    /\ Val(real_estate_calc).calc_year >= Val(Val(real_estate_calc).mortgage).tenor
    /\ QPositive(Val(Val(real_estate_calc).mortgage).monthly_payment)
    /\ Val(real_estate_calc).total_expense
          = Val(real_estate_calc).maintenance_expense
            + Val(real_estate_calc).monthly_fees_annualized
            + Val(real_estate_calc).rental_management_total_expense
            + Val(real_estate_calc).property_tax_expense

\* C18: after a call that computes the scenario and returns, capital_gains is
\* max(0, sale_proceeds_after_fees - (acquisition_cost - depreciation_cumulative)),
\* capital_gains_tax is max(0, trunc(capital_gains x rate - primary residence
\* deduction)), neither is negative, and sale_proceeds_net is
\* sale_proceeds_after_fees - capital_gains_tax, so at most
\* sale_proceeds_after_fees.
C18_CapitalGainsFloored ==
    (Computed /\ raised = "none") =>
        LET self == Val(real_estate_calc)
            gain == QSub(self.sale_proceeds_after_fees,
                         QInt(self.acquisition_cost - self.depreciation_cumulative))
            tax == QTrunc(QSub(QMul(self.capital_gains, self.capital_gains_tax_rate),
                               QInt(self.capital_gains_tax_primary_residence_deduction)))
        IN  /\ self.capital_gains = IF QPositive(gain) THEN gain ELSE QInt(0)
            /\ self.capital_gains_tax = IF tax > 0 THEN tax ELSE 0
            /\ ~QPositive(QNeg(self.capital_gains))
            /\ self.capital_gains_tax >= 0
            /\ self.sale_proceeds_net =
                  QSub(self.sale_proceeds_after_fees, QInt(self.capital_gains_tax))
            /\ ~QPositive(QSub(self.sale_proceeds_net, self.sale_proceeds_after_fees))

\* A sale above cost was computed: the gain and its tax are above 0, and the
\* net proceeds are below the proceeds after fees
C18_Witness ==
    /\ Computed /\ raised = "none" /\ real_estate_calc # None
    /\ QPositive(Val(real_estate_calc).capital_gains)
    /\ Val(real_estate_calc).capital_gains_tax > 0
    /\ Val(real_estate_calc).calc_year >= 1
    /\ QPositive(QSub(Val(real_estate_calc).sale_proceeds_after_fees,
                      Val(real_estate_calc).sale_proceeds_net))

\* C23: a constructor call or calculate_all_fields() at evaluation year Y >= 0
\* ends, and recomputes exactly Y + 1 deep copies, at the years Y - 1, Y - 2,
\* ..., -1 in this order; a call at year -1 assigns cumulative_net_income 0
\* and recomputes no copy.
C23_CumulativeRecursionEnds ==
    /\ (Computed /\ Supplied.calc_year >= 0) =>
           copies = [i \in 1..(Supplied.calc_year + 1) |-> Supplied.calc_year - i]
    /\ (Computed /\ Supplied.calc_year = -1) =>
           /\ copies = <<>>
           /\ raised = "none" => Val(real_estate_calc).cumulative_net_income = QInt(0)

\* A recompute at year 2 returned, after recomputing the copies at 1, 0 and -1
C23_Witness ==
    /\ last_call = "RealEstateCalc.calculate_all_fields" /\ raised = "none"
    /\ Val(real_estate_calc).calc_year = 2
    /\ copies = <<1, 0, -1>>

\* The value a computing call leaves in the input k that held before: an unset
\* purchase_date becomes a day date.today() returned, an unset rental rate or
\* fee its default, and every other input is kept
InputsKept(k, before, after) ==
    CASE k = "purchase_date" /\ before = None ->
             after \in { Some(today) : today \in Todays }
      [] k = "renewal_income_rate" /\ before = None ->
             after = Some(RENEWAL_INCOME_RATE_DEFAULT)
      [] k = "rental_management_rental_fee" /\ before = None ->
             after = Some(RENTAL_MANAGEMENT_FEE_DEFAULT)
      [] k = "rental_management_renewal_fee" /\ before = None ->
             after = Some(RENTAL_MANAGEMENT_RENEWAL_DEFAULT)
      [] OTHER -> after = before

\* C24: a constructor call or calculate_all_fields(), returning or raising,
\* leaves every input of the scenario as it was, calc_year among them, but for
\* a None purchase_date, renewal_income_rate, rental_management_rental_fee and
\* rental_management_renewal_fee, which it replaces by their defaults; the
\* decrement of the year reaches only the copies.
C24_RecomputeKeepsInputs ==
    [][(last_call' \in RealEstateCalls /\ real_estate_calc' # None) =>
          \A k \in RealEstateInputs :
              InputsKept(k,
                         IF last_call' = "RealEstateCalc" THEN Val(arguments')[k]
                         ELSE Val(real_estate_calc)[k],
                         Val(real_estate_calc')[k])]_vars

\* A constructor call at year 2 without purchase date and rental rates
\* returned: the object has them set, and its year is 2 after three copies
C24_Witness ==
    /\ last_call = "RealEstateCalc" /\ raised = "none"
    /\ Val(arguments).purchase_date = None
    /\ Val(arguments).renewal_income_rate = None
    /\ Val(arguments).calc_year = 2
    /\ Val(real_estate_calc).purchase_date # None
    /\ Val(real_estate_calc).renewal_income_rate = Some(RENEWAL_INCOME_RATE_DEFAULT)
    /\ Val(real_estate_calc).calc_year = 2
    /\ Len(copies) = 3

\* C25: calculate_all_fields() on a scenario that was computed and then given
\* a primary-residence code outside {0, 1, 2} raises the ValueError, and
\* leaves capital_gains_tax_primary_residence_deduction, capital_gains_tax,
\* sale_proceeds_net and net_income_on_realestate at the values of the last
\* call that returned.
C25_AbortKeepsLastValues ==
    [][(/\ real_estate_calc # None /\ raised = "none"
        /\ Val(real_estate_calc).is_primary_residence \notin {0, 1, 2}
        /\ last_call' = "RealEstateCalc.calculate_all_fields")
       => /\ raised' = "ValueError"
          /\ \A k \in { "capital_gains_tax_primary_residence_deduction",
                        "capital_gains_tax", "sale_proceeds_net",
                        "net_income_on_realestate" } :
                Val(real_estate_calc')[k] = Val(real_estate_calc)[k]]_vars

\* The recompute of a home given the code 3 raised: the deduction is still the
\* 30,000,000 of the code 1 and the capital gains tax is still there, although
\* at year -1 the call on the object itself reached the step that raises
C25_Witness ==
    /\ last_call = "RealEstateCalc.calculate_all_fields"
    /\ raised = "ValueError"
    /\ Val(real_estate_calc).is_primary_residence = 3
    /\ Val(real_estate_calc).capital_gains_tax_primary_residence_deduction = 30000000
    /\ Val(real_estate_calc).capital_gains_tax >= 0
    /\ Val(real_estate_calc).calc_year = -1

\* C28: after a call that computes a scenario attached to the tax profile and
\* returns, a property that adds nothing to the profile (net_income_taxable 0
\* and home_loan_deduction 0) has income_tax_real_estate 0, and its
\* net_income_after_taxes is its net_income_before_taxes, whatever the dates
\* of the profile and of the purchase.
C28_NothingAddedNothingTaxed ==
    (/\ Computed /\ raised = "none" /\ real_estate_calc # None
     /\ Val(real_estate_calc).income_tax_calculator # None
     /\ Val(real_estate_calc).net_income_taxable = 0
     /\ Val(real_estate_calc).home_loan_deduction = 0) =>
        /\ Val(real_estate_calc).income_tax_real_estate = QInt(0)
        /\ Val(real_estate_calc).net_income_after_taxes
              = QInt(Val(real_estate_calc).net_income_before_taxes)

-----------------------------------------------------------------------------
(* A caller that works as the unit tests do: it constructs a scenario,     *)
(* assigns attributes, and calls single steps of calculate_all_fields()    *)
(* on the object, in the order calculate_all_fields() calls them.  The     *)
(* steps called read the inputs, the mortgage and the depreciation fields  *)
(* of the construction, none of which depends on an assigned attribute.    *)

MaxStepCalls == 2

\* The evaluation years assigned: around 0, the depreciation years, the 5 years
\* of a short holding, and the 10 years of the home loan deduction
StepYears == { -1, 0, 1, 2, 4, 5, 9, 10 }

\* A new home of 60 m2 on a loan of 11 years, bought 5 years before the
\* restoration tax expires, its building depreciated over 2 years
LongLoanHome ==
    [FinancedHome EXCEPT !.purchase_date = Some(Date(2033, 1, 1)),
                         !.mortgage_tenor = 11, !.useful_life = 2]

\* The same home on a loan of 300,000
SmallLoanHome == [LongLoanHome EXCEPT !.mortgage_loan_to_value = Frac(1, 100)]

\* The same home, 5 years old and of 51 m2
OldHome == [LongLoanHome EXCEPT !.size = 51, !.age = 5]

\* The same home, of 50 m2
SmallFlat == [LongLoanHome EXCEPT !.size = 50]

\* The same home without the tax profile
UnattachedHome == [LongLoanHome EXCEPT !.income_tax_calculator = None]

StepArguments ==
    { CashRental, FinancedHome, SecondHandRental, LongLoanHome, SmallLoanHome,
      OldHome, SmallFlat, UnattachedHome }

\* The steps called directly
DirectSteps ==
    { "depreciation", "calc_date", "home_loan_deduction", "depreciation_cumulative",
      "capital_gains_tax_rate" }

\* The place of a step among the calls of calculate_all_fields(), 0 for a call
\* that is not one of its steps
StepPosition(name) ==
    IF \E i \in 1..Len(RealEstateSteps) : RealEstateSteps[i] = name
    THEN CHOOSE i \in 1..Len(RealEstateSteps) : RealEstateSteps[i] = name
    ELSE 0

InitSteps ==
    /\ \E a \in StepArguments :
       \E today \in TodaysRead(a) :
       \E profile \in { IncomeTaxCalc([IncomeTaxCalc_defaults EXCEPT
                                         !.employment_income = 10000000], today).self } :
       \E call \in { RealEstateCalc(a, Heap(profile), today) } :
              /\ call.raised = "none"
              /\ real_estate_calc = Some(call.self)
              /\ income_tax_calc = profile
              /\ copies = call.copies
    /\ arguments = None
    /\ recomputes = 0
    /\ raised = "none"
    /\ last_call = "RealEstateCalc"
    /\ loan = NoLoan
    /\ probe = None
    /\ second_calc = None
    /\ running = <<>>

\* real_estate_calc.calc_year = calc_year
StepSetCalcYear ==
    /\ recomputes = 0
    /\ \E calc_year \in StepYears :
          real_estate_calc' = Some([Val(real_estate_calc) EXCEPT !.calc_year = calc_year])
    /\ last_call' = "setattr"
    /\ UNCHANGED <<loan, probe, income_tax_calc, arguments, recomputes, raised, copies, interleaved>>

\* real_estate_calc.is_primary_residence = is_primary_residence
StepSetIsPrimaryResidence ==
    /\ recomputes = 0
    /\ \E is_primary_residence \in { 0, 1, 2 } :
          real_estate_calc' =
              Some([Val(real_estate_calc) EXCEPT
                      !.is_primary_residence = is_primary_residence])
    /\ last_call' = "setattr"
    /\ UNCHANGED <<loan, probe, income_tax_calc, arguments, recomputes, raised, copies, interleaved>>

\* real_estate_calc.income_tax_calculator.taxable_income = 30000000: the
\* attribute of the profile the scenario refers to
StepSetTaxableIncome ==
    /\ recomputes = 0
    /\ Val(real_estate_calc).income_tax_calculator # None
    /\ income_tax_calc' = [income_tax_calc EXCEPT !.taxable_income = QInt(30000000)]
    /\ last_call' = "setattr"
    /\ UNCHANGED <<loan, probe, real_estate_calc, arguments, recomputes, raised, copies, interleaved>>

\* The frame of a step called on the object
StepFrame ==
    [self |-> Val(real_estate_calc), heap |-> Heap(income_tax_calc),
     today |-> CHOOSE today \in Todays : TRUE, raised |-> "none", copies |-> <<>>]

\* A step may be called: the calls are bounded, and name comes after the step
\* called last
MayCall(name) ==
    /\ recomputes < MaxStepCalls
    /\ StepPosition(last_call) < StepPosition(name)

\* real_estate_calc._calculate_depreciation()
StepDepreciation ==
    /\ MayCall("depreciation")
    /\ \E call \in { RE_calculate_depreciation(StepFrame) } :
          real_estate_calc' = Some(call.self) /\ raised' = call.raised
    /\ recomputes' = recomputes + 1
    /\ last_call' = "depreciation"
    /\ UNCHANGED <<loan, probe, income_tax_calc, arguments, copies, interleaved>>

\* real_estate_calc._calculate_calc_date()
StepCalcDate ==
    /\ MayCall("calc_date")
    /\ \E call \in { RE_calculate_calc_date(StepFrame) } :
          real_estate_calc' = Some(call.self) /\ raised' = call.raised
    /\ recomputes' = recomputes + 1
    /\ last_call' = "calc_date"
    /\ UNCHANGED <<loan, probe, income_tax_calc, arguments, copies, interleaved>>

\* real_estate_calc._calculate_home_loan_deduction()
StepHomeLoanDeduction ==
    /\ MayCall("home_loan_deduction")
    /\ \E call \in { RE_calculate_home_loan_deduction(StepFrame) } :
          real_estate_calc' = Some(call.self) /\ raised' = call.raised
    /\ recomputes' = recomputes + 1
    /\ last_call' = "home_loan_deduction"
    /\ UNCHANGED <<loan, probe, income_tax_calc, arguments, copies, interleaved>>

\* real_estate_calc._calculate_depreciation_cumulative()
StepDepreciationCumulative ==
    /\ MayCall("depreciation_cumulative")
    /\ \E call \in { RE_calculate_depreciation_cumulative(StepFrame) } :
          real_estate_calc' = Some(call.self) /\ raised' = call.raised
    /\ recomputes' = recomputes + 1
    /\ last_call' = "depreciation_cumulative"
    /\ UNCHANGED <<loan, probe, income_tax_calc, arguments, copies, interleaved>>

\* real_estate_calc._calculate_capital_gains_tax_rate()
StepCapitalGainsTaxRate ==
    /\ MayCall("capital_gains_tax_rate")
    /\ \E call \in { RE_calculate_capital_gains_tax_rate(StepFrame) } :
          real_estate_calc' = Some(call.self) /\ raised' = call.raised
    /\ recomputes' = recomputes + 1
    /\ last_call' = "capital_gains_tax_rate"
    /\ UNCHANGED <<loan, probe, income_tax_calc, arguments, copies, interleaved>>

NextSteps ==
    \/ StepSetCalcYear
    \/ StepSetIsPrimaryResidence
    \/ StepSetTaxableIncome
    \/ StepDepreciation
    \/ StepCalcDate
    \/ StepHomeLoanDeduction
    \/ StepDepreciationCumulative
    \/ StepCapitalGainsTaxRate

SpecSteps == InitSteps /\ [][NextSteps]_vars

-----------------------------------------------------------------------------
(* Properties of the steps.                                                *)

\* C12: depreciation_for_year(y) is depreciation_annual for y below
\* depreciation_years and 0 from depreciation_years on; the depreciation step
\* assigns it for the evaluation year Y, and the cumulative step assigns
\* depreciation_annual x min(Y + 1, depreciation_years), the same for every Y
\* from depreciation_years - 1 on.
C12_DepreciationStopsAfterItsYears ==
    LET self == Val(real_estate_calc)
        Y == self.calc_year
    IN  /\ \A y \in StepYears :
              depreciation_for_year(self, y) =
                  IF y < self.depreciation_years THEN self.depreciation_annual ELSE 0
        /\ last_call = "depreciation" =>
              self.depreciation =
                  IF Y < self.depreciation_years THEN self.depreciation_annual ELSE 0
        /\ last_call = "depreciation_cumulative" =>
              /\ self.depreciation_cumulative =
                    self.depreciation_annual * IntMin(Y + 1, self.depreciation_years)
              /\ Y >= self.depreciation_years - 1 =>
                    self.depreciation_cumulative =
                        self.depreciation_annual * self.depreciation_years

\* The cumulative step was called years after the 2 years of depreciation had
\* ended, and assigned 2 years of it
C12_Witness ==
    /\ last_call = "depreciation_cumulative"
    /\ Val(real_estate_calc).depreciation_years = 2
    /\ Val(real_estate_calc).calc_year >= 4
    /\ Val(real_estate_calc).depreciation_annual > 0
    /\ Val(real_estate_calc).depreciation_cumulative
          = 2 * Val(real_estate_calc).depreciation_annual

\* The sum of the amortization entries from month calc_year x 12 on (counted
\* from 0; at year -1, the last twelve)
RemainingLoanBalance(self) ==
    LET amortization_schedule == Val(self.mortgage).amortization_schedule
        first == IF self.calc_year >= 0 THEN self.calc_year * 12 + 1
                 ELSE Len(amortization_schedule) - 11
    IN  QSumRange(amortization_schedule, first, Len(amortization_schedule))

C16_CapitalGainsTaxRate ==
    LET self == Val(real_estate_calc)
        percent == IF self.calc_year < 5
                   THEN (IF self.is_resident_for_tax_purposes THEN 39 ELSE 30)
                   ELSE (IF self.is_resident_for_tax_purposes THEN 20 ELSE 15)
    IN  /\ last_call = "calc_date" =>
              self.calc_date = AddYears(Val(self.purchase_date), self.calc_year)
        /\ last_call = "capital_gains_tax_rate" =>
              self.capital_gains_tax_rate =
                  IF DateLT(self.calc_date, Date(2038, 1, 1))
                  THEN QFrac(Frac(percent * 1021, 100000))
                  ELSE QFrac(Frac(percent, 100))

\* The two steps were called for a resident at year 5, the evaluation date is
\* 2038-01-01, and the rate is 20% without the surcharge
C16_Witness ==
    /\ last_call = "capital_gains_tax_rate"
    /\ Val(real_estate_calc).calc_year = 5
    /\ Val(real_estate_calc).is_resident_for_tax_purposes
    /\ Val(real_estate_calc).calc_date = Date(2038, 1, 1)
    /\ Val(real_estate_calc).calc_date
          = AddYears(Val(Val(real_estate_calc).purchase_date), 5)
    /\ Val(real_estate_calc).capital_gains_tax_rate = QFrac(Frac(20, 100))

-----------------------------------------------------------------------------
(* A caller that changes the financing and the building of a scenario: it  *)
(* holds a tax profile, constructs a scenario attached to it, and then     *)
(* assigns mortgage_loan_to_value, mortgage_tenor, useful_life or          *)
(* calc_year and calls calculate_all_fields().                             *)

LoansToValue == { Frac(0, 1), Frac(8, 10) }

MortgageTenors == { 0, 1, 2 }

UsefulLives == { 0, 2, 47 }

InputYears == 0..MaxYear

\* The new flat of FinancedHome, lived in by its owner
OwnedHome == [FinancedHome EXCEPT !.is_primary_residence = 1]

\* The second-hand flat of SecondHandRental, bought on a known day
RentedFlat == [SecondHandRental EXCEPT !.purchase_date = Some(Date(2030, 3, 31))]

InputArguments ==
    { [a EXCEPT !.mortgage_loan_to_value = mortgage_loan_to_value,
                !.mortgage_tenor = mortgage_tenor] :
        a \in { OwnedHome, RentedFlat },
        mortgage_loan_to_value \in LoansToValue, mortgage_tenor \in { 0, 2 } }

InitInputs ==
    /\ \E employment_income \in { 0, 10000000 } :
          income_tax_calc =
              IncomeTaxCalc([IncomeTaxCalc_defaults EXCEPT
                               !.employment_income = employment_income],
                            CHOOSE today \in Todays : TRUE).self
    /\ \E a \in InputArguments :
       \E call \in { RealEstateCalc(a, Heap(income_tax_calc),
                                    CHOOSE today \in Todays : TRUE) } :
              /\ real_estate_calc = IF call.raised = "none" THEN Some(call.self) ELSE None
              /\ raised = call.raised
              /\ copies = call.copies
              /\ arguments = Some(a)
    /\ recomputes = 1
    /\ last_call = "RealEstateCalc"
    /\ loan = NoLoan
    /\ probe = None
    /\ second_calc = None
    /\ running = <<>>

\* real_estate_calc.mortgage_loan_to_value = mortgage_loan_to_value
InputSetLoanToValue ==
    /\ real_estate_calc # None
    /\ raised = "none"
    /\ last_call \in RealEstateCalls
    /\ \E mortgage_loan_to_value \in LoansToValue :
          real_estate_calc' =
              Some([Val(real_estate_calc) EXCEPT
                      !.mortgage_loan_to_value = mortgage_loan_to_value])
    /\ recomputes' = 0
    /\ last_call' = "setattr"
    /\ arguments' = None
    /\ UNCHANGED <<loan, probe, income_tax_calc, raised, copies, interleaved>>

\* real_estate_calc.mortgage_tenor = mortgage_tenor
InputSetMortgageTenor ==
    /\ real_estate_calc # None
    /\ raised = "none"
    /\ last_call \in RealEstateCalls
    /\ \E mortgage_tenor \in MortgageTenors :
          real_estate_calc' =
              Some([Val(real_estate_calc) EXCEPT !.mortgage_tenor = mortgage_tenor])
    /\ recomputes' = 0
    /\ last_call' = "setattr"
    /\ arguments' = None
    /\ UNCHANGED <<loan, probe, income_tax_calc, raised, copies, interleaved>>

\* real_estate_calc.useful_life = useful_life
InputSetUsefulLife ==
    /\ real_estate_calc # None
    /\ raised = "none"
    /\ last_call \in RealEstateCalls
    /\ \E useful_life \in UsefulLives :
          real_estate_calc' =
              Some([Val(real_estate_calc) EXCEPT !.useful_life = useful_life])
    /\ recomputes' = 0
    /\ last_call' = "setattr"
    /\ arguments' = None
    /\ UNCHANGED <<loan, probe, income_tax_calc, raised, copies, interleaved>>

\* real_estate_calc.calc_year = calc_year
InputSetCalcYear ==
    /\ real_estate_calc # None
    /\ raised = "none"
    /\ last_call \in RealEstateCalls
    /\ \E calc_year \in InputYears :
          real_estate_calc' = Some([Val(real_estate_calc) EXCEPT !.calc_year = calc_year])
    /\ recomputes' = 0
    /\ last_call' = "setattr"
    /\ arguments' = None
    /\ UNCHANGED <<loan, probe, income_tax_calc, raised, copies, interleaved>>

\* real_estate_calc.calculate_all_fields()
InputCalculate ==
    /\ real_estate_calc # None
    /\ raised = "none"
    /\ recomputes < MaxRecomputes
    /\ \E call \in { RE_calculate_all_fields(
                          [self |-> Val(real_estate_calc), heap |-> Heap(income_tax_calc),
                           today |-> CHOOSE today \in Todays : TRUE,
                           raised |-> "none", copies |-> <<>>]) } :
              /\ real_estate_calc' = Some(call.self)
              /\ income_tax_calc' = call.heap.income_tax_calc
              /\ raised' = call.raised
              /\ copies' = call.copies
    /\ recomputes' = recomputes + 1
    /\ last_call' = "RealEstateCalc.calculate_all_fields"
    /\ arguments' = None
    /\ UNCHANGED <<loan, probe, interleaved>>

NextInputs ==
    \/ InputSetLoanToValue
    \/ InputSetMortgageTenor
    \/ InputSetUsefulLife
    \/ InputSetCalcYear
    \/ InputCalculate

SpecInputs == InitInputs /\ [][NextInputs]_vars

-----------------------------------------------------------------------------
(* Properties of the scenario under changes of its financing and building. *)

\* C21: no call divides by zero: with depreciation_years == 0 the annual
\* depreciation is 0, with mortgage_tenor == 0 and a positive financed amount
\* the call returns and the mortgage has monthly_payment 0, and a tax profile
\* with total_income == 0 has effective_tax_rate 0.
C21_NoDivisionByZero ==
    (Computed /\ real_estate_calc # None) =>
        LET self == Val(real_estate_calc)
        IN  /\ raised # "ZeroDivisionError"
            /\ self.depreciation_years = 0 =>
                   /\ self.depreciation_percentage = QInt(0)
                   /\ self.depreciation_annual = 0
            /\ (self.mortgage_tenor = 0 /\ self.purchase_price_financed > 0) =>
                   /\ raised = "none"
                   /\ self.mortgage # None
                   /\ Val(self.mortgage).tenor = 0
                   /\ Val(self.mortgage).monthly_payment = QInt(0)
            /\ income_tax_calc.total_income = 0 =>
                   income_tax_calc.effective_tax_rate = QInt(0)

\* A recompute returned for a building without depreciation years, financed
\* over no years, of an owner without income
C21_Witness ==
    /\ last_call = "RealEstateCalc.calculate_all_fields" /\ raised = "none"
    /\ Val(real_estate_calc).useful_life = 0
    /\ Val(real_estate_calc).depreciation_years = 0
    /\ Val(real_estate_calc).purchase_price_building # QInt(0)
    /\ Val(real_estate_calc).mortgage_tenor = 0
    /\ Val(real_estate_calc).purchase_price_financed > 0
    /\ Val(real_estate_calc).calc_year > 0
    /\ income_tax_calc.total_income = 0

\* The object with its derived fields as __init__ leaves them before its first
\* pass, and its inputs as they are
Unset(self) ==
    [k \in DOMAIN self |-> IF k \in RealEstateDerived THEN None ELSE self[k]]

\* C22: the steps of calculate_all_fields() read only inputs and derived fields
\* that an earlier step of the same pass wrote, none left over from a previous
\* pass: the fields after a call that returned are those the same call gives
\* on the object with every derived field unset.
C22_StepsReadThisPassOnly ==
    (last_call = "RealEstateCalc.calculate_all_fields" /\ raised = "none") =>
        Val(real_estate_calc)
          = RE_calculate_all_fields(
                [self |-> Unset(Val(real_estate_calc)), heap |-> Heap(income_tax_calc),
                 today |-> CHOOSE today \in Todays : TRUE, raised |-> "none", copies |-> <<>>]).self

\* C27: after every call that computes the scenario and returns, the scenario
\* holds a mortgage if and only if int(purchase_price * bank_valuation_to_actual
\* * mortgage_loan_to_value) > 0, the mortgage it holds has that principal and
\* the scenario's mortgage_tenor and mortgage_rate, and with nothing financed
\* no mortgage payment, interest or home loan deduction enters the year.
C27_MortgageFollowsFinancing ==
    (Computed /\ raised = "none" /\ real_estate_calc # None) =>
        LET self == Val(real_estate_calc)
            financed ==
                QTrunc(QMulFrac(QMulFrac(QInt(self.purchase_price),
                                         self.bank_valuation_to_actual.n,
                                         self.bank_valuation_to_actual.d),
                                self.mortgage_loan_to_value.n,
                                self.mortgage_loan_to_value.d))
        IN  /\ self.mortgage # None <=> financed > 0
            /\ self.mortgage # None =>
                   /\ Val(self.mortgage).principal = financed
                   /\ Val(self.mortgage).tenor = self.mortgage_tenor
                   /\ Val(self.mortgage).rate = self.mortgage_rate
            /\ financed = 0 =>
                   /\ self.total_expense =
                          self.maintenance_expense + self.monthly_fees_annualized
                          + self.rental_management_total_expense
                          + self.property_tax_expense
                   /\ self.net_income_taxable =
                          IF self.is_primary_residence # 0 THEN 0
                          ELSE self.total_income - self.total_expense - self.depreciation
                   /\ self.home_loan_deduction = 0

\* depreciation_cumulative as its step assigns it at the evaluation year y
DepreciationCumulativeAt(self, y) ==
    RE_calculate_depreciation_cumulative(
        [self |-> [self EXCEPT !.calc_year = y]]).self.depreciation_cumulative

\* C29: after every call that computes the scenario and returns, with
\* useful_life >= 0, age >= 0 and calc_year Y >= 0: depreciation_cumulative is
\* not above the building value (depreciated_building_value >= 0), it does
\* not decrease from any year to the next up to Y, the land and building
\* values add up to the price, and book_value is price - depreciation_cumulative.
C29_DepreciationWithinBuildingValue ==
    (/\ Computed /\ raised = "none" /\ real_estate_calc # None
     /\ Val(real_estate_calc).useful_life >= 0 /\ Val(real_estate_calc).age >= 0
     /\ Val(real_estate_calc).calc_year >= 0) =>
        LET self == Val(real_estate_calc)
        IN  /\ self.depreciated_building_value =
                   QSub(self.purchase_price_building, QInt(self.depreciation_cumulative))
            /\ self.depreciated_building_value.i >= 0
            /\ self.depreciation_cumulative >= 0
            /\ self.depreciation_cumulative = DepreciationCumulativeAt(self, self.calc_year)
            /\ \A y \in 0..self.calc_year :
                   DepreciationCumulativeAt(self, y - 1) <= DepreciationCumulativeAt(self, y)
            /\ QAdd(self.purchase_price_land, self.purchase_price_building)
                   = QInt(self.purchase_price)
            /\ self.book_value =
                   QSub(QInt(self.purchase_price), QInt(self.depreciation_cumulative))

\* A recompute returned in the year after the two depreciation years of a new
\* building: the whole building value is depreciated, and no more than it
C29_Witness ==
    /\ last_call = "RealEstateCalc.calculate_all_fields" /\ raised = "none"
    /\ Val(real_estate_calc).age = 0
    /\ Val(real_estate_calc).depreciation_years = 2
    /\ Val(real_estate_calc).calc_year = 2
    /\ Val(real_estate_calc).depreciation_cumulative
          = 2 * Val(real_estate_calc).depreciation_annual
    /\ Val(real_estate_calc).depreciation_cumulative > 0
    /\ Val(real_estate_calc).depreciated_building_value = QInt(0)

-----------------------------------------------------------------------------
(* A caller of IncomeTaxCalc in the employer's rent program: it constructs *)
(* a profile, and then assigns employment_income, rent or is_rent_program  *)
(* and calls calculate_all_fields().                                       *)

\* Incomes at and around the lower bounds of brackets of the conversion table
RentIncomes == { 0, 651000, 1619000, 6600000, 10000000 }

\* Rents whose 95% is an integer (0, 20, 1200000) and is none (1, 1000001)
Rents == { 0, 1, 20, 1000001, 1200000 }

InitRent ==
    /\ \E today \in Todays :
       \E call \in { IncomeTaxCalc([IncomeTaxCalc_defaults EXCEPT
                                      !.is_rent_program = TRUE], today) } :
              /\ income_tax_calc = call.self
              /\ raised = call.raised
    /\ loan = NoLoan
    /\ probe = None
    /\ real_estate_calc = None
    /\ arguments = None
    /\ recomputes = 0
    /\ last_call = "IncomeTaxCalc"
    /\ copies = <<>>
    /\ second_calc = None
    /\ running = <<>>

\* income_tax_calc.employment_income = employment_income
RentSetEmploymentIncome ==
    /\ last_call \in TaxCalls
    /\ \E employment_income \in RentIncomes :
          income_tax_calc' = [income_tax_calc EXCEPT !.employment_income = employment_income]
    /\ last_call' = "setattr"
    /\ UNCHANGED <<loan, probe, real_estate_calc, arguments, recomputes, raised, copies, interleaved>>

\* income_tax_calc.rent = rent
RentSetRent ==
    /\ last_call \in TaxCalls
    /\ \E rent \in Rents :
          income_tax_calc' = [income_tax_calc EXCEPT !.rent = rent]
    /\ last_call' = "setattr"
    /\ UNCHANGED <<loan, probe, real_estate_calc, arguments, recomputes, raised, copies, interleaved>>

\* income_tax_calc.is_rent_program = not income_tax_calc.is_rent_program
RentSetRentProgram ==
    /\ last_call \in TaxCalls
    /\ income_tax_calc' = [income_tax_calc EXCEPT !.is_rent_program = ~@]
    /\ last_call' = "setattr"
    /\ UNCHANGED <<loan, probe, real_estate_calc, arguments, recomputes, raised, copies, interleaved>>

\* income_tax_calc.calculate_all_fields()
RentCalculate ==
    /\ \E today \in Todays :
       \E call \in { Tax_calculate_all_fields(income_tax_calc, today) } :
              /\ income_tax_calc' = call.self
              /\ raised' = call.raised
    /\ last_call' = "IncomeTaxCalc.calculate_all_fields"
    /\ UNCHANGED <<loan, probe, real_estate_calc, arguments, recomputes, copies, interleaved>>

NextRent ==
    \/ RentSetEmploymentIncome
    \/ RentSetRent
    \/ RentSetRentProgram
    \/ RentCalculate

SpecRent == InitRent /\ [][NextRent]_vars

-----------------------------------------------------------------------------
(* Properties of the profile in the rent program.                          *)

\* employment_income - 0.95 * rent of the profile self
IncomeAfterRent(self) ==
    QSub(QInt(self.employment_income),
         QMulFrac(QInt(self.rent), LEGAL_RENT_RATE.n, LEGAL_RENT_RATE.d))

\* C30: calculate_all_fields() on a profile in the rent program with
\* employment_income >= 0, rent >= 0 and employment_income - 0.95 * rent >= 0
\* finds a bracket in both tables and returns; it raises the ValueError only
\* when the income after the rent program is negative.
C30_RentProgramStaysInDomain ==
    (/\ last_call \in TaxCalls
     /\ income_tax_calc.is_rent_program
     /\ income_tax_calc.employment_income >= 0 /\ income_tax_calc.rent >= 0) =>
        /\ IncomeAfterRent(income_tax_calc).i >= 0 => raised = "none"
        /\ raised = "ValueError" => IncomeAfterRent(income_tax_calc).i < 0

-----------------------------------------------------------------------------
(* A caller that recomputes two scenarios at once: it holds a tax profile, *)
(* constructs two scenarios attached to it, assigns each an evaluation     *)
(* year, and starts calculate_all_fields() on both; the steps of the two   *)
(* calls run one at a time in any order.  A step is atomic: it writes the  *)
(* fields of its own object only, and what it does to the profile is kept. *)

\* The profile both scenarios refer to, as constructed
SharedProfile ==
    IncomeTaxCalc([IncomeTaxCalc_defaults EXCEPT !.employment_income = 10000000],
                  CHOOSE today \in Todays : TRUE).self

\* The call frame of a step on the object self
SharedFrame(self) ==
    [self |-> self, heap |-> Heap(income_tax_calc),
     today |-> CHOOSE today \in Todays : TRUE, raised |-> "none", copies |-> <<>>]

\* Both objects are constructed, assigned their years, and their calls started
InitShared ==
    /\ income_tax_calc = SharedProfile
    /\ \E a \in { OwnedHome, RentedFlat }, b \in { OwnedHome, RentedFlat } :
       \E first \in { RealEstateCalc(a, Heap(income_tax_calc),
                                     CHOOSE today \in Todays : TRUE) } :
       \E second \in { RealEstateCalc(b, Heap(income_tax_calc),
                                      CHOOSE today \in Todays : TRUE) } :
              /\ first.raised = "none" /\ second.raised = "none"
              /\ real_estate_calc = Some([first.self EXCEPT !.calc_year = 1])
              /\ second_calc = Some([second.self EXCEPT !.calc_year = MaxYear])
    /\ running = [first |-> 1, second |-> 1]
    /\ arguments = None
    /\ recomputes = 0
    /\ raised = "none"
    /\ last_call = "setattr"
    /\ copies = <<>>
    /\ loan = NoLoan
    /\ probe = None

\* The next step of real_estate_calc.calculate_all_fields()
SharedStepFirst ==
    /\ raised = "none"
    /\ running.first <= Len(RealEstateSteps)
    /\ \E call \in { RealEstateStep(RealEstateSteps[running.first],
                                     SharedFrame(Val(real_estate_calc))) } :
              /\ real_estate_calc' = Some(call.self)
              /\ income_tax_calc' = call.heap.income_tax_calc
              /\ raised' = call.raised
    /\ running' = [running EXCEPT !.first = @ + 1]
    /\ last_call' = RealEstateSteps[running.first]
    /\ UNCHANGED <<loan, probe, arguments, recomputes, copies, second_calc>>

\* The next step of second_calc.calculate_all_fields()
SharedStepSecond ==
    /\ raised = "none"
    /\ running.second <= Len(RealEstateSteps)
    /\ \E call \in { RealEstateStep(RealEstateSteps[running.second],
                                     SharedFrame(Val(second_calc))) } :
              /\ second_calc' = Some(call.self)
              /\ income_tax_calc' = call.heap.income_tax_calc
              /\ raised' = call.raised
    /\ running' = [running EXCEPT !.second = @ + 1]
    /\ last_call' = RealEstateSteps[running.second]
    /\ UNCHANGED <<loan, probe, arguments, recomputes, copies, real_estate_calc>>

NextShared ==
    \/ SharedStepFirst
    \/ SharedStepSecond

SpecShared == InitShared /\ [][NextShared]_vars

-----------------------------------------------------------------------------
(* Properties of the two scenarios recomputed at once.                     *)

\* calculate_all_fields() on the object self alone, with the profile as
\* constructed
RecomputedAlone(self) ==
    RE_calculate_all_fields(
        [self |-> self, heap |-> Heap(SharedProfile),
         today |-> CHOOSE today \in Todays : TRUE, raised |-> "none",
         copies |-> <<>>]).self

\* C26: while the steps of the two calls interleave the shared profile stays
\* as it was, no step raises, and a call that has run its last step leaves
\* its scenario with the fields calculate_all_fields() gives it alone.
C26_InterleavedAsAlone ==
    /\ income_tax_calc = SharedProfile
    /\ raised = "none"
    /\ running.first > Len(RealEstateSteps) =>
           Val(real_estate_calc) = RecomputedAlone(Val(real_estate_calc))
    /\ running.second > Len(RealEstateSteps) =>
           Val(second_calc) = RecomputedAlone(Val(second_calc))

\* Both calls ended, on a home whose loan deduction and a rental whose taxable
\* income went into copies of the one profile, at different dates
C26_Witness ==
    /\ running.first > Len(RealEstateSteps)
    /\ running.second > Len(RealEstateSteps)
    /\ last_call = "net_income_on_realestate"
    /\ Val(real_estate_calc).is_primary_residence = 1
    /\ Val(second_calc).is_primary_residence = 0
    /\ Val(real_estate_calc).home_loan_deduction # 0
    /\ Val(second_calc).net_income_taxable # 0
    /\ Val(real_estate_calc).calc_date # Val(second_calc).calc_date

=============================================================================
